---- MODULE Spec2Model ----
(***************************************************************************)
(* Model of the msgChannels messaging core: BaseChannel (listener         *)
(* registry, dispatch/filter loop, hello/greeting/goodbye handshake) and  *)
(* AsyncChannel (pending-request table, per-request timer, responder      *)
(* registration) over a BroadcastChannel transport.                       *)
(*                                                                         *)
(* Optional JavaScript values are sequences: <<>> is null, <<x>> is the   *)
(* value x.  Objects (payload, metadata) are records.  A missing          *)
(* recipient (toAgent null) is the empty string, which is falsy as null   *)
(* is.  Every step of the model is one event-loop callback or one public  *)
(* API call, run to completion.                                           *)
(***************************************************************************)
EXTENDS Integers, Sequences, FiniteSets, TLC

\* ------------------------------------------------------------------ bounds
NumChannels == 2
MaxRequests == 2
MaxHandlers == 1
MaxSends == 1

Channels == 1..NumChannels
\* The channel objects on the transport: the peers above and one more, which
\* only the contexts that take the default agent name construct.
Instances == 1..(NumChannels + 1)

\* ---------------------------------------------------------------- constants
\* The agentName each context passes to its channel ('scope:name' once built).
AgentNames == <<"main:ui", "main:io", "main:db">>
AgentNameOf(c) == AgentNames[((c - 1) % Len(AgentNames)) + 1]
RequestTypes == {"echo"}
Payloads == {[v |-> 1]}
HandlerBodies == {"echo", "fail"}
\* What application code puts in a reply it builds itself.
AppPayload == [v |-> 0]

HelloType == "channel_hello"
GreetingType == "channel_greeting"
GoodbyeType == "channel_goodbye"
RequestType == "request"
ResponseType == "response"
ErrorType == "system_error"
LogType == "system_log"
StatusType == "system_status"
EventType == "app_event"
\* The event names of OPFSNotifier, emitter by emitter.
FsEvents == {"file_created", "file_modified", "file_deleted",
             "dir_created", "dir_deleted", "entry_moved"}
MsgTypes == {HelloType, GreetingType, GoodbyeType, RequestType, ResponseType,
             ErrorType, LogType, StatusType, EventType} \cup FsEvents

NoAgent == ""
EmptyObject == [k \in {} |-> 0]

\* A request is broadcast or addressed to a peer.
Recipients(c) == {NoAgent} \cup {AgentNameOf(d) : d \in Channels \ {c}}

VARIABLES
    status,           \* per channel: "none" (not constructed), "open", "closed"
    agentID,          \* per channel: agent.agentID, NoAgent before construction
    listeners,        \* per channel: message type -> sequence of callbacks
    pendingRequests,  \* per channel: requestMsgID -> {resolve, reject, timeout}
    timers,           \* the armed setTimeout handles
    promises,         \* requestMsgID -> the promise request() returned
    inbox,            \* per channel: messages the transport has queued for it
    tasks,            \* onRequest listeners suspended at `await callback(...)`
    nextID,           \* per channel: how many IDs its context has drawn, plus one
    nRequests,        \* request() calls made so far
    nSends,           \* sendMsg() calls made by application code so far
    trace,            \* what the last step did, in order, when it was observed
    heard,            \* <<msgID, instance>>: the direct messages dispatched, when logged
    clock,            \* the time in ms, and for each timer handle when it was armed and is due
    file              \* one OPFSWorkerFile object, the entry at its path and the calls in flight

vars == <<status, agentID, listeners, pendingRequests, timers, promises,
          inbox, tasks, nextID, nRequests, nSends, trace, heard, clock, file>>

\* The program state as one value, so that a callback is a function on it.
State == [status |-> status, agentID |-> agentID, listeners |-> listeners,
          pendingRequests |-> pendingRequests, timers |-> timers,
          promises |-> promises, inbox |-> inbox, tasks |-> tasks,
          nextID |-> nextID, heard |-> heard, clock |-> clock, file |-> file,
          trace |-> <<>>, thrown |-> <<>>, loop |-> <<>>]

CommitState(g) ==
    /\ status' = g.status
    /\ agentID' = g.agentID
    /\ listeners' = g.listeners
    /\ pendingRequests' = g.pendingRequests
    /\ timers' = g.timers
    /\ promises' = g.promises
    /\ inbox' = g.inbox
    /\ tasks' = g.tasks
    /\ nextID' = g.nextID
    /\ heard' = g.heard
    /\ clock' = g.clock
    /\ file' = g.file

\* The step, unobserved.
Commit(g) == CommitState(g) /\ trace' = <<>>

\* One thing a step does: a listener invoked, a message handed to the
\* transport, a promise settled, an exception leaving the step.
Event(op, c, arg) == [op |-> op, channel |-> c, arg |-> arg]

Record(g, op, c, arg) == [g EXCEPT !.trace = Append(@, Event(op, c, arg))]

\* throw: the exception is on its way up the call stack.
Throw(g, e) == [g EXCEPT !.thrown = <<e>>]

\* The step, observed: what it did and whether an exception left it.
Observe(g) ==
    /\ CommitState(g)
    /\ trace' = IF g.thrown = <<>> THEN g.trace
                ELSE Append(g.trace, Event("throw", 0, g.thrown[1].name))

\* ------------------------------------------------------------- message model

\* pushID.newID({length: 10}) in the context of instance c, as a string.
IDStrings == <<"0QZ7qGgA01", "0QZ7qGgA02", "0QZ7qGgA03", "0QZ7qGgA04">>
newID(c) == IDStrings[c]

\* MessageAgent._generateAgentID: the preferred name, else the worker's own
\* name, else 'main' on the main thread and a fresh ID in a worker.
generateAgentID(agentScope, preferredName, selfName, c) ==
    LET name == IF preferredName # "" THEN preferredName
                ELSE IF agentScope = "worker" /\ selfName # "" THEN selfName
                ELSE IF agentScope = "main" THEN "main"
                ELSE newID(c)
    IN agentScope \o ":" \o name

\* pushID.newObj in the context of channel c: the identifier the next call
\* returns, unique across contexts and calls.
pushID(g, c) == <<c, g.nextID[c]>>

\* One call of the generator in the context of channel c.
DrawID(g, c) == [g EXCEPT !.nextID[c] = @ + 1]

BaseMessage(id, agent, type, payload, metadata, toAgent) ==
    [msgID |-> id, type |-> type, payload |-> payload, metadata |-> metadata,
     agentID |-> agent, toAgent |-> toAgent]

HandshakeMessage(id, agent, type, metadata, toAgent) ==
    BaseMessage(id, agent, type, <<[agentID |-> agent, scope |-> "main"]>>,
                metadata, toAgent)

HelloMessage(id, agent) == HandshakeMessage(id, agent, HelloType, <<>>, NoAgent)

GreetingMessage(id, agent, toAgent) ==
    HandshakeMessage(id, agent, GreetingType, <<>>, toAgent)

GoodbyeMessage(id, agent) == HandshakeMessage(id, agent, GoodbyeType, <<>>, NoAgent)

RequestMessage(id, agent, originalType, payload, toAgent) ==
    BaseMessage(id, agent, RequestType, payload,
                <<[requestType |-> originalType]>>, toAgent)

\* { requestMsgID: requestMsgID } without the spread.
SpreadOverBaseOnly(base, spread) == base

\* { requestMsgID: requestMsgID, ...requestMetadata }
SpreadOver(base, spread) ==
    IF spread = <<>> THEN base
    ELSE [k \in (DOMAIN base) \cup (DOMAIN spread[1]) |->
            IF k \in DOMAIN spread[1] THEN spread[1][k] ELSE base[k]]

\* The spread comes after the requestMsgID key; this.requestMsgID is set
\* from the argument.
ResponseMessage(id, agent, requestMsgID, payload, requestMetadata, toAgent) ==
    LET base == BaseMessage(id, agent, ResponseType, payload,
                    <<SpreadOver([requestMsgID |-> requestMsgID], requestMetadata)>>,
                    toAgent)
    IN [k \in (DOMAIN base) \cup {"requestMsgID"} |->
            IF k = "requestMsgID" THEN requestMsgID ELSE base[k]]

\* The constructor passes null as metadata to the base constructor: the
\* default {} applies to undefined only, so the message's metadata is null.
\* `id` is the second identifier drawn; the first, prefixID, is the msgID of
\* the temporary message of _getLogPrefix and is rendered in the prefix of
\* payload.message (kept beside the text as prefixMsgID).
ErrorMessage(prefixID, id, agent, error, data, toAgent) ==
    BaseMessage(id, agent, ErrorType,
                <<[name |-> error.name, message |-> error.message,
                   stack |-> error.stack, data |-> data,
                   prefixMsgID |-> prefixID]>>,
                <<>>, toAgent)

LogLevels == {"info", "warn", "debug"}

\* new LogMessage(agent, level, message, data, toAgent), the level being
\* valid: the prefix of payload.message as for ErrorMessage, metadata null.
LogMessage(prefixID, id, agent, level, message, data, toAgent) ==
    BaseMessage(id, agent, LogType,
                <<[level |-> level, message |-> message, data |-> data,
                   prefixMsgID |-> prefixID]>>,
                <<>>, toAgent)

\* new StatusMessage(agent, key, value, toAgent), the key being valid.
StatusMessage(id, agent, key, value, toAgent) ==
    BaseMessage(id, agent, StatusType, <<[key |-> key, value |-> value]>>,
                <<>>, toAgent)

\* new EventMessage(agent, name, data, metadata, toAgent), the name being valid.
EventMessage(id, agent, name, data, metadata, toAgent) ==
    BaseMessage(id, agent, EventType, <<[name |-> name, data |-> data]>>,
                metadata, toAgent)

\* The Error a message constructor throws on an argument it rejects.
ConstructionError == [name |-> "Error", message |-> "invalid message", stack |-> "at constructor"]

\* The Error a handler throws.
HandlerError == [name |-> "Error", message |-> "handler failed", stack |-> "at handler"]

\* InvalidStateError thrown by postMessage on a closed BroadcastChannel.
InvalidStateError == [name |-> "InvalidStateError", message |-> "channel closed", stack |-> "at postMessage"]

\* ------------------------------------------------------------------ promises

\* new Promise(...): pending, with a count of the resolve/reject calls made.
NewPromise(owner) ==
    [owner |-> owner, state |-> "pending",
     value |-> <<>>, reason |-> <<>>, settles |-> 0]

\* resolve(v) of the promise of request id: only the first call has effect.
resolve(g, id, v) ==
    Record([g EXCEPT !.promises[id] =
                IF @.state = "pending"
                THEN [@ EXCEPT !.state = "fulfilled", !.value = v, !.settles = @ + 1]
                ELSE [@ EXCEPT !.settles = @ + 1]],
           "resolve", g.promises[id].owner, id)

\* reject(e) of the promise of request id: only the first call has effect.
reject(g, id, e) ==
    Record([g EXCEPT !.promises[id] =
                IF @.state = "pending"
                THEN [@ EXCEPT !.state = "rejected", !.reason = <<e>>, !.settles = @ + 1]
                ELSE [@ EXCEPT !.settles = @ + 1]],
           "reject", g.promises[id].owner, id)

\* RequestTimeoutError without `this.requestMsgID = msgID`.
RequestTimeoutErrorNoID(msgID) ==
    [name |-> "RequestTimeoutError", message |-> "Request timed out after 10000ms.",
     requestMsgID |-> <<>>, remoteStack |-> <<>>, remoteData |-> <<>>]

RequestTimeoutError(msgID) ==
    [name |-> "RequestTimeoutError", message |-> "Request timed out after 10000ms.",
     requestMsgID |-> <<msgID>>, remoteStack |-> <<>>, remoteData |-> <<>>]

ChannelClosedError ==
    [name |-> "Error", message |-> "Channel closed. Request aborted.",
     requestMsgID |-> <<>>, remoteStack |-> <<>>, remoteData |-> <<>>]

\* new Error(`Remote Error: ...`) with remoteStack and remoteData attached.
RemoteError(payload) ==
    [name |-> "Error", message |-> "Remote Error: " \o payload.message,
     requestMsgID |-> <<>>, remoteStack |-> <<payload.stack>>,
     remoteData |-> <<payload.data>>]

\* --------------------------------------------------------------- transport

\* BroadcastChannel.postMessage throws InvalidStateError on a closed channel.
\* postMessage accepted whatever the state of the channel object.
CanPostAlways(g, c) == TRUE

CanPost(g, c) == g.status[c] = "open"

\* BroadcastChannel.postMessage: one copy queued for every other channel
\* object that is open on the name at the time of the call.
postMessage(g, c, m) ==
    Record([g EXCEPT !.inbox = [d \in Instances |->
                IF d # c /\ g.status[d] = "open" THEN @[d] \cup {m} ELSE @[d]]],
           "post", c, m)

\* A value that no message-model constructor built carries its JavaScript
\* type (jsType) and its properties as [t |-> typeof, v |-> value].
InstanceOfBaseMessage(m) == "jsType" \notin DOMAIN m

TypeError == [name |-> "TypeError", message |-> "not a BaseMessage", stack |-> "at sendMsg"]

\* sendMsg without the instanceof check.
sendMsgUnchecked(g, c, m) == postMessage(g, c, m)

\* sendMsg on an open channel: the instanceof check, then postMessage.
sendMsg(g, c, m) ==
    IF ~InstanceOfBaseMessage(m) THEN Throw(g, TypeError)
    ELSE postMessage(g, c, m)

\* setTimeout / clearTimeout; the handle of a request's timer is its msgID.
setTimeout(g, handle) == [g EXCEPT !.timers = @ \cup {handle}]

\* clearTimeout that leaves the timer armed.
clearTimeoutIgnored(g, handle) == g

clearTimeout(g, handle) == [g EXCEPT !.timers = @ \ {handle}]

\* Map.clear in place of Map.delete.
DeletePendingAll(g, c, id) ==
    [g EXCEPT !.pendingRequests[c] = EmptyObject]

\* Map.delete on one channel's pending table.
DeletePending(g, c, id) ==
    [g EXCEPT !.pendingRequests[c] = [k \in (DOMAIN @) \ {id} |-> @[k]]]

\* Map.set on one channel's pending table.
SetPending(g, c, id, entry) ==
    [g EXCEPT !.pendingRequests[c] =
        [k \in (DOMAIN @) \cup {id} |-> IF k = id THEN entry ELSE @[k]]]

\* ------------------------------------------------------------- BaseChannel

Callback(kind, requestType, body) ==
    [kind |-> kind, requestType |-> requestType, body |-> body]

handleHandshakeCb == Callback("handleHandshake", "", "")
handleResponseCb == Callback("handleResponse", "", "")

\* on() with unshift in place of push.
onFront(g, c, type, callback) ==
    Record([g EXCEPT !.listeners[c][type] = <<callback>> \o @],
           "on", c, <<type, callback>>)

\* The array object a running dispatch iterates is the one the registry
\* holds for the type (loop.alias) until off() replaces it or close() clears
\* the registry.  Pushed(g, c, type, callback): the push of on() lands in the
\* iterated array when it is that object.
Iterating(g, c, type) ==
    /\ g.loop # <<>>
    /\ g.loop[1].channel = c
    /\ g.loop[1].type = type
    /\ g.loop[1].alias

Pushed(g, c, type, callback) ==
    IF Iterating(g, c, type) THEN [g EXCEPT !.loop[1].arr = Append(@, callback)] ELSE g

Replaced(g, c, type) ==
    IF Iterating(g, c, type) THEN [g EXCEPT !.loop[1].alias = FALSE] ELSE g

\* on(type, callback): push onto the type's listener array.
on(g, c, type, callback) ==
    Record(Pushed([g EXCEPT !.listeners[c][type] = Append(@, callback)], c, type, callback),
           "on", c, <<type, callback>>)

\* off() that drops the type's whole listener array.
offWholeType(g, c, type, callback) ==
    Record([g EXCEPT !.listeners[c][type] = <<>>], "off", c, <<type, callback>>)

\* off(type, callback): the type's array filtered by cb !== callback; a type
\* that has no array is left alone.
off(g, c, type, callback) ==
    Record(Replaced([g EXCEPT !.listeners[c][type] = SelectSeq(@, LAMBDA cb : cb # callback)],
                    c, type),
           "off", c, <<type, callback>>)

\* getAgentID that returns whatever it is given.
ValidAgentAlways(agent) == TRUE

\* typeof type === 'string' && type.length > 0
ValidType(type) == type # ""

\* getAgentID: a non-empty string, or an object with a non-empty agentID.
ValidAgent(agent) == agent # ""

\* this.sendMsg(new X(...)) from the point where the BaseMessage constructor
\* runs for message m: the type check, the ID draw, the agent check, then
\* sendMsg; postMessage throws on a closed channel.
sendNew(g, c, m) ==
    IF ~ValidType(m.type) THEN Throw(g, ConstructionError)
    ELSE IF ~ValidAgent(m.agentID) THEN Throw(DrawID(g, c), ConstructionError)
    ELSE IF CanPost(g, c) THEN sendMsg(DrawID(g, c), c, m)
    ELSE Throw(DrawID(g, c), InvalidStateError)

\* log(message, data, level, toAgent): the level check, the temporary
\* message of _getLogPrefix, then the LogMessage itself.
log(g, c, message, data, level, toAgent) ==
    IF level \notin LogLevels THEN Throw(g, ConstructionError)
    ELSE LET g1 == DrawID(g, c)
         IN sendNew(g1, c, LogMessage(pushID(g, c), pushID(g1, c), g.agentID[c],
                                      level, message, data, toAgent))

\* error(err, data, toAgent) with an Error object.
channelError(g, c, err, data, toAgent) ==
    LET g1 == DrawID(g, c)
    IN sendNew(g1, c, ErrorMessage(pushID(g, c), pushID(g1, c), g.agentID[c],
                                   err, data, toAgent))

\* event(name, data, toAgent): metadata is passed as null.
event(g, c, name, data, toAgent) ==
    IF name = "" THEN Throw(g, ConstructionError)
    ELSE sendNew(g, c, EventMessage(pushID(g, c), g.agentID[c], name, data, <<>>, toAgent))

\* status(key, value, toAgent)
channelStatus(g, c, key, value, toAgent) ==
    IF key = "" THEN Throw(g, ConstructionError)
    ELSE sendNew(g, c, StatusMessage(pushID(g, c), g.agentID[c], key, value, toAgent))

\* greeting() without the recipient check of the GreetingMessage constructor.
greetingUnchecked(g, c, toAgentID) ==
    LET m == GreetingMessage(pushID(g, c), g.agentID[c], toAgentID)
        g1 == DrawID(g, c)
    IN IF CanPost(g1, c) THEN sendMsg(g1, c, m) ELSE Throw(g1, InvalidStateError)

\* greeting() that leaves the recipient out.
greetingBroadcast(g, c, toAgentID) ==
    LET m == GreetingMessage(pushID(g, c), g.agentID[c], NoAgent)
        g1 == DrawID(g, c)
    IN IF CanPost(g1, c) THEN sendMsg(g1, c, m) ELSE Throw(g1, InvalidStateError)

\* greeting(toAgentID): a GreetingMessage addressed to the hello's sender.
\* A throw of sendMsg is caught by the dispatch loop that called the listener.
\* The GreetingMessage constructor throws on a missing recipient before the
\* base constructor runs.
greeting(g, c, toAgentID) ==
    LET m == GreetingMessage(pushID(g, c), g.agentID[c], toAgentID)
        g1 == DrawID(g, c)
    IN IF toAgentID = NoAgent THEN Throw(g, ConstructionError)
       ELSE IF CanPost(g1, c) THEN sendMsg(g1, c, m)
       ELSE Throw(g1, InvalidStateError)

\* _handleHandshake answering a hello with two greetings.
handleHandshakeGreetsTwice(g, c, message) ==
    IF message.type = HelloType
    THEN greeting(greeting(g, c, message.agentID), c, message.agentID)
    ELSE g

\* _handleHandshake(message): a hello is answered with greeting(sender),
\* any other message with nothing.
handleHandshake(g, c, message) ==
    IF message.type = HelloType THEN greeting(g, c, message.agentID) ELSE g

\* ------------------------------------------------------------ AsyncChannel

\* message.metadata?.requestMsgID, <<>> when undefined
MetadataRequestMsgID(message) ==
    IF message.metadata = <<>> THEN <<>>
    ELSE IF "requestMsgID" \in DOMAIN message.metadata[1]
         THEN <<message.metadata[1].requestMsgID>>
         ELSE <<>>

\* message.metadata?.requestType, <<>> when undefined
MetadataRequestType(message) ==
    IF message.metadata = <<>> THEN <<>>
    ELSE IF "requestType" \in DOMAIN message.metadata[1]
         THEN <<message.metadata[1].requestType>>
         ELSE <<>>

\* _handleResponse without this._pendingRequests.delete(requestMsgID).
handleResponseKeepsEntry(g, c, message) ==
    LET rid == MetadataRequestMsgID(message) IN
    IF rid = <<>> THEN g
    ELSE IF rid[1] \notin DOMAIN g.pendingRequests[c] THEN g
    ELSE
        LET pendingRequest == g.pendingRequests[c][rid[1]]
            g1 == clearTimeout(g, pendingRequest.timeout)
        IN IF message.type = ErrorType
           THEN reject(g1, pendingRequest.reject, RemoteError(message.payload[1]))
           ELSE resolve(g1, pendingRequest.resolve, message.payload)

\* _handleResponse without clearTimeout.
handleResponseKeepsTimer(g, c, message) ==
    LET rid == MetadataRequestMsgID(message) IN
    IF rid = <<>> THEN g
    ELSE IF rid[1] \notin DOMAIN g.pendingRequests[c] THEN g
    ELSE
        LET pendingRequest == g.pendingRequests[c][rid[1]]
            g2 == DeletePending(g, c, rid[1])
        IN IF message.type = ErrorType
           THEN reject(g2, pendingRequest.reject, RemoteError(message.payload[1]))
           ELSE resolve(g2, pendingRequest.resolve, message.payload)

\* _handleResponse settling through the promise of the named request
\* without looking the request up in the pending table.
handleResponseNoLookup(g, c, message) ==
    LET rid == MetadataRequestMsgID(message) IN
    IF rid = <<>> THEN g
    ELSE IF rid[1] \notin DOMAIN g.promises THEN g
    ELSE IF g.promises[rid[1]].owner # c THEN g
    ELSE
        LET g1 == clearTimeout(g, rid[1])
            g2 == DeletePending(g1, c, rid[1])
        IN IF message.type = ErrorType
           THEN reject(g2, rid[1], RemoteError(message.payload[1]))
           ELSE resolve(g2, rid[1], message.payload)

\* _handleResponse without the check of the message type.
handleResponseResolvesErrors(g, c, message) ==
    LET rid == MetadataRequestMsgID(message) IN
    IF rid = <<>> THEN g
    ELSE IF rid[1] \notin DOMAIN g.pendingRequests[c] THEN g
    ELSE
        LET pendingRequest == g.pendingRequests[c][rid[1]]
            g1 == clearTimeout(g, pendingRequest.timeout)
            g2 == DeletePending(g1, c, rid[1])
        IN resolve(g2, pendingRequest.resolve, message.payload)

handleResponse(g, c, message) ==
    LET rid == MetadataRequestMsgID(message) IN
    IF rid = <<>> THEN g
    ELSE IF rid[1] \notin DOMAIN g.pendingRequests[c] THEN g
    ELSE
        LET pendingRequest == g.pendingRequests[c][rid[1]]
            g1 == clearTimeout(g, pendingRequest.timeout)
            g2 == DeletePending(g1, c, rid[1])
        IN IF message.type = ErrorType
           THEN reject(g2, pendingRequest.reject, RemoteError(message.payload[1]))
           ELSE resolve(g2, pendingRequest.resolve, message.payload)

\* The onRequest listener without the filter on the request type.
requestListenerNoFilter(g, c, cb, message, idx) ==
    [g EXCEPT !.tasks = @ \cup
        {[channel |-> c, idx |-> idx, body |-> cb.body, message |-> message]}]

\* The listener onRequest registers, up to its `await callback(...)`: a
\* request of another type is ignored, otherwise the handler is started.
requestListener(g, c, cb, message, idx) ==
    IF MetadataRequestType(message) # <<cb.requestType>> THEN g
    ELSE [g EXCEPT !.tasks = @ \cup
            {[channel |-> c, idx |-> idx, body |-> cb.body, message |-> message]}]

\* goodbye(): new GoodbyeMessage(this.agent), then sendMsg.
goodbye(g, c) == sendMsg(DrawID(g, c), c, GoodbyeMessage(pushID(g, c), g.agentID[c]))

\* The forEach of close() without clearTimeout.
RECURSIVE rejectAllKeepsTimers(_, _, _)
rejectAllKeepsTimers(g, c, ids) ==
    IF ids = {} THEN g
    ELSE LET id == CHOOSE k \in ids : TRUE
             req == g.pendingRequests[c][id]
         IN rejectAllKeepsTimers(reject(g, req.reject, ChannelClosedError), c, ids \ {id})

\* The forEach of close(): clearTimeout and reject for every entry.
RECURSIVE rejectAll(_, _, _)
rejectAll(g, c, ids) ==
    IF ids = {} THEN g
    ELSE LET id == CHOOSE k \in ids : TRUE
             req == g.pendingRequests[c][id]
         IN rejectAll(reject(clearTimeout(g, req.timeout), req.reject, ChannelClosedError),
                      c, ids \ {id})

\* close() without the goodbye.
closeSilent(g, c) ==
    LET g1 == rejectAll(g, c, DOMAIN g.pendingRequests[c])
        g2 == [g1 EXCEPT !.pendingRequests[c] = EmptyObject]
        g4 == Record([g2 EXCEPT !.status[c] = "closed", !.inbox[c] = {}],
                     "close", c, "transport")
    IN [g4 EXCEPT !.listeners[c] = [t \in MsgTypes |-> <<>>]]

\* AsyncChannel.close(): reject and clear the pending requests, then
\* BaseChannel.close(): goodbye, transport close, listener registry cleared.
\* The transport delivers nothing to a closed channel: the message tasks
\* still queued for it are discarded.
close(g, c) ==
    LET g1 == rejectAll(g, c, DOMAIN g.pendingRequests[c])
        g2 == [g1 EXCEPT !.pendingRequests[c] = EmptyObject]
        g3 == goodbye(g2, c)
        g4 == Record([g3 EXCEPT !.status[c] = "closed", !.inbox[c] = {}],
                     "close", c, "transport")
        g5 == IF g4.loop # <<>> /\ g4.loop[1].channel = c
              THEN [g4 EXCEPT !.loop[1].alias = FALSE] ELSE g4
    IN [g5 EXCEPT !.listeners[c] = [t \in MsgTypes |-> <<>>]]

\* The callback a re-entrant listener registers or removes.
PlainListener == Callback("listener", "", "f")

\* A listener of the application: it returns, or it throws, or it calls
\* back into the channel that invoked it: on(message.type, f),
\* off(message.type, f) or close().
listener(g, c, cb, message) ==
    CASE cb.body = "throws" -> Throw(g, HandlerError)
      [] cb.body = "on" -> on(g, c, message.type, PlainListener)
      [] cb.body = "off" -> off(g, c, message.type, PlainListener)
      [] cb.body = "close" -> close(g, c)
      [] OTHER -> g

\* callback(message) for the listener at position idx of the array.
Invoke(g, c, cb, message, idx) ==
    LET g1 == Record(g, "invoke", c, <<message.type, idx>>) IN
    CASE cb.kind = "handleHandshake" -> handleHandshake(g1, c, message)
      [] cb.kind = "handleResponse" -> handleResponse(g1, c, message)
      [] cb.kind = "onRequest" -> requestListener(g1, c, cb, message, idx)
      [] cb.kind = "listener" -> listener(g1, c, cb, message)

\* The loop over the listeners without try/catch: the first exception
\* ends the loop and leaves the router.
RECURSIVE dispatchNoCatch(_, _, _, _, _)
dispatchNoCatch(g, c, message, ls, i) ==
    IF i > Len(ls) THEN g
    ELSE LET r == Invoke(g, c, ls[i], message, i)
         IN IF r.thrown # <<>> THEN r
            ELSE dispatchNoCatch(r, c, message, ls, i + 1)

\* for (const callback of listeners): the array iterator reads the length
\* and the element of the array object at every turn, so it reaches what a
\* callback pushed onto that object in the meantime.  An exception of a
\* callback is caught and logged, and the loop goes on.
RECURSIVE forOf(_, _, _, _)
forOf(g, c, message, i) ==
    IF i > Len(g.loop[1].arr) THEN g
    ELSE LET r == Invoke(g, c, g.loop[1].arr[i], message, i)
             caught == IF r.thrown = <<>> THEN r
                       ELSE Record([r EXCEPT !.thrown = <<>>], "console.error", c, i)
         IN forOf(caught, c, message, i + 1)

\* The loop over `listeners`, the array object obtained from the registry
\* when the dispatch began, from position i on.
dispatch(g, c, message, ls, i) ==
    LET g1 == [g EXCEPT !.loop = <<[channel |-> c, type |-> message.type,
                                    arr |-> ls, alias |-> TRUE]>>]
    IN [forOf(g1, c, message, i) EXCEPT !.loop = <<>>]

\* typeof of a received value; typeof null is 'object'.
TypeOf(message) ==
    IF InstanceOfBaseMessage(message) THEN "object"
    ELSE IF message.jsType = "null" THEN "object" ELSE message.jsType

\* typeof message[k]
TypeOfField(message, k) ==
    IF k \notin DOMAIN message THEN "undefined"
    ELSE IF InstanceOfBaseMessage(message) THEN "string"
    ELSE message[k].t

\* !message[k] for a property that holds a string when it is present
Falsy(message, k) ==
    IF k \notin DOMAIN message THEN TRUE
    ELSE IF InstanceOfBaseMessage(message) THEN message[k] = ""
    ELSE message[k].t \in {"undefined", "null"} \/ message[k].v = ""

\* The validation of _messageRouter.
Malformed(message) ==
    \/ TypeOf(message) # "object"
    \/ (~InstanceOfBaseMessage(message) /\ message.jsType = "null")
    \/ TypeOfField(message, "type") # "string"
    \/ Falsy(message, "agentID")

\* _messageRouter without the direct-message filter.
messageRouterNoFilter(g, c, message) ==
    IF Malformed(message) THEN Record(g, "console.warn", c, message)
    ELSE dispatch(Record(g, "dispatch", c, message), c, message,
                  g.listeners[c][message.type], 1)

\* _messageRouter without the validation: reading a property of a value
\* that has none throws.
messageRouterNoValidation(g, c, message) ==
    IF Malformed(message) THEN Throw(g, TypeError)
    ELSE IF message.toAgent # NoAgent /\ message.toAgent # g.agentID[c] THEN g
    ELSE dispatch(Record(g, "dispatch", c, message), c, message,
                  g.listeners[c][message.type], 1)

\* _messageRouter(event): validation (warn and return), direct-message
\* filter (return), then the loop over the listeners of the type.
messageRouter(g, c, message) ==
    IF Malformed(message) THEN Record(g, "console.warn", c, message)
    ELSE IF message.toAgent # NoAgent /\ message.toAgent # g.agentID[c] THEN g
    ELSE dispatch(Record(g, "dispatch", c, message), c, message,
                  g.listeners[c][message.type], 1)

\* ----------------------------------------------------------------- actions

\* hello(): new HelloMessage(this.agent), then sendMsg.
hello(g, c) == sendMsg(DrawID(g, c), c, HelloMessage(pushID(g, c), g.agentID[c]))

\* The constructor without the hello() call.
ConstructorSilent(g, c, name) ==
    LET g1 == [g EXCEPT !.status[c] = "open", !.agentID[c] = name]
        g2 == on(g1, c, HelloType, handleHandshakeCb)
        g4 == on(g2, c, ResponseType, handleResponseCb)
    IN on(g4, c, ErrorType, handleResponseCb)

\* new BaseChannel(channelName, agentName): agent, transport, handshake
\* listener, hello.
BaseChannelConstructor(g, c, name) ==
    LET g1 == [g EXCEPT !.status[c] = "open", !.agentID[c] = name]
        g2 == on(g1, c, HelloType, handleHandshakeCb)
    IN hello(g2, c)

\* new AsyncChannel(channelName, agentName): the BaseChannel constructor
\* and the two response listeners.
Constructor(g, c, name) ==
    LET g3 == BaseChannelConstructor(g, c, name)
        g4 == on(g3, c, ResponseType, handleResponseCb)
    IN on(g4, c, ErrorType, handleResponseCb)

\* No timer was ever armed.
NoClock == [now |-> 0, armed |-> EmptyObject, due |-> EmptyObject]

\* new OPFSWorkerFile(path) on a path where no entry exists: the cache is
\* empty, _accessHandle is null (0), no call is in flight.
MaxFileOps == 3
FileOps == 1..MaxFileOps
IdleOp == [kind |-> "none", pc |-> "idle", key |-> "", value |-> 0, wrote |-> 0]
NewFile ==
    [fs |-> [exists |-> FALSE, version |-> 0],
     lock |-> 0,
     accessHandle |-> 0,
     cache |-> EmptyObject,
     ops |-> [o \in FileOps |-> IdleOp]]

\* Nothing is constructed yet.
Blank ==
    [status |-> [c \in Instances |-> "none"],
     agentID |-> [c \in Instances |-> NoAgent],
     listeners |-> [c \in Instances |-> [t \in MsgTypes |-> <<>>]],
     pendingRequests |-> [c \in Instances |-> EmptyObject],
     timers |-> {},
     promises |-> EmptyObject,
     inbox |-> [c \in Instances |-> {}],
     tasks |-> {},
     nextID |-> [c \in Instances |-> 1],
     heard |-> {},
     clock |-> NoClock,
     file |-> NewFile,
     trace |-> <<>>,
     thrown |-> <<>>,
     loop |-> <<>>]

\* Every context constructs its channel, in turn.
RECURSIVE ConstructAll(_, _)
ConstructAll(g, c) ==
    IF c > NumChannels THEN g
    ELSE ConstructAll(Constructor(g, c, AgentNameOf(c)), c + 1)

\* The transport delivers what is queued until nothing is left.
RECURSIVE Quiesce(_)
Quiesce(g) ==
    IF \A c \in Channels : g.inbox[c] = {} THEN g
    ELSE LET c == CHOOSE d \in Channels : g.inbox[d] # {}
             m == CHOOSE x \in g.inbox[c] : TRUE
         IN Quiesce(messageRouter([g EXCEPT !.inbox[c] = @ \ {m}], c, m))

\* Every channel is open on the name and the hello/greeting exchange of the
\* constructions is over.
InitState == Quiesce(ConstructAll(Blank, 1))

Init ==
    /\ LET g == InitState
       IN /\ status = g.status
          /\ agentID = g.agentID
          /\ listeners = g.listeners
          /\ pendingRequests = g.pendingRequests
          /\ timers = g.timers
          /\ promises = g.promises
          /\ inbox = g.inbox
          /\ tasks = g.tasks
          /\ nextID = g.nextID
    /\ nRequests = 0
    /\ nSends = 0
    /\ trace = <<>>
    /\ heard = {}
    /\ clock = NoClock
    /\ file = NewFile

\* request() whose message takes the ID of the context's previous message.
requestStaleID(g, c, type, payload, toAgent) ==
    LET requestMessage == RequestMessage(<<c, g.nextID[c] - 1>>, g.agentID[c], type,
                                         payload, toAgent)
        requestMsgID == requestMessage.msgID
        g1 == sendMsg(g, c, requestMessage)
        g2 == [g1 EXCEPT !.promises =
                 [k \in (DOMAIN @) \cup {requestMsgID} |->
                    IF k = requestMsgID THEN NewPromise(c) ELSE @[k]]]
        g3 == setTimeout(g2, requestMsgID)
    IN SetPending(g3, c, requestMsgID,
                  [resolve |-> requestMsgID, reject |-> requestMsgID,
                   timeout |-> requestMsgID])

\* request() that posts, creates the promise and arms the timer, and leaves
\* the pending entry out.
requestNoEntry(g, c, type, payload, toAgent) ==
    LET requestMessage == RequestMessage(pushID(g, c), g.agentID[c], type, payload, toAgent)
        requestMsgID == requestMessage.msgID
        g1 == sendMsg(DrawID(g, c), c, requestMessage)
        g2 == [g1 EXCEPT !.promises =
                 [k \in (DOMAIN @) \cup {requestMsgID} |->
                    IF k = requestMsgID THEN NewPromise(c) ELSE @[k]]]
    IN setTimeout(g2, requestMsgID)

\* request() that never arms the timer.
requestNoTimer(g, c, type, payload, toAgent) ==
    LET requestMessage == RequestMessage(pushID(g, c), g.agentID[c], type, payload, toAgent)
        requestMsgID == requestMessage.msgID
        g1 == sendMsg(DrawID(g, c), c, requestMessage)
        g2 == [g1 EXCEPT !.promises =
                 [k \in (DOMAIN @) \cup {requestMsgID} |->
                    IF k = requestMsgID THEN NewPromise(c) ELSE @[k]]]
    IN SetPending(g2, c, requestMsgID,
                  [resolve |-> requestMsgID, reject |-> requestMsgID,
                   timeout |-> requestMsgID])

\* request(type, payload, toAgent, timeout) on an open channel: send, then
\* create the promise, arm the timer and store the entry.
request(g, c, type, payload, toAgent) ==
    LET requestMessage == RequestMessage(pushID(g, c), g.agentID[c], type, payload, toAgent)
        requestMsgID == requestMessage.msgID
        g1 == sendMsg(DrawID(g, c), c, requestMessage)
        g2 == [g1 EXCEPT !.promises =
                 [k \in (DOMAIN @) \cup {requestMsgID} |->
                    IF k = requestMsgID THEN NewPromise(c) ELSE @[k]]]
        g3 == setTimeout(g2, requestMsgID)
    IN SetPending(g3, c, requestMsgID,
                  [resolve |-> requestMsgID, reject |-> requestMsgID,
                   timeout |-> requestMsgID])

\* On a closed channel sendMsg throws out of request(): the message was
\* constructed, nothing else happened.
Request(c, type, payload, toAgent) ==
    /\ status[c] # "none"
    /\ nRequests < MaxRequests
    /\ nRequests' = nRequests + 1
    /\ IF CanPost(State, c)
       THEN Commit(request(State, c, type, payload, toAgent))
       ELSE Commit(DrawID(State, c))
    /\ UNCHANGED nSends

\* onRequest(requestType, callback): one listener on the generic request type.
onRequest(g, c, requestType, body) ==
    on(g, c, RequestType, Callback("onRequest", requestType, body))

\* onRequest registrations made so far on channels still open.
RECURSIVE SumLen(_, _)
SumLen(f, S) ==
    IF S = {} THEN 0
    ELSE LET c == CHOOSE x \in S : TRUE IN Len(f[c][RequestType]) + SumLen(f, S \ {c})

NumHandlers == SumLen(listeners, Channels)

OnRequest(c, requestType, body) ==
    /\ status[c] = "open"
    /\ NumHandlers < MaxHandlers
    /\ Commit(onRequest(State, c, requestType, body))
    /\ UNCHANGED <<nRequests, nSends>>

\* The transport runs the message task queued for channel c: _messageRouter.
Deliver(c, message) ==
    /\ message \in inbox[c]
    /\ status[c] = "open"
    /\ Commit(messageRouter([State EXCEPT !.inbox[c] = @ \ {message}], c, message))
    /\ UNCHANGED <<nRequests, nSends>>

\* The catch block of the onRequest listener: build the ErrorMessage, set
\* metadata.requestMsgID on it, send it.  Setting a property of a null
\* metadata throws out of the listener, and so does sendMsg on a closed channel.
replyError(g, c, message, error) ==
    LET g1 == DrawID(DrawID(g, c), c)
        errorMsg == ErrorMessage(pushID(g, c), pushID(DrawID(g, c), c), g.agentID[c], error,
                                 <<[originalRequestID |-> message.msgID]>>,
                                 message.agentID)
    IN IF errorMsg.metadata = <<>> THEN g1
       ELSE IF ~CanPost(g1, c) THEN g1
       ELSE sendMsg(g1, c,
              [errorMsg EXCEPT !.metadata =
                 <<SpreadOver(@[1], <<[requestMsgID |-> message.msgID]>>)>>])

\* The try block addressing the response to the request's recipient
\* instead of its sender.
replyResultWrongRecipient(g, c, message, resultPayload) ==
    LET response == ResponseMessage(pushID(g, c), g.agentID[c], message.msgID,
                                    resultPayload, message.metadata, g.agentID[c])
        g1 == DrawID(g, c)
    IN IF CanPost(g1, c) THEN sendMsg(g1, c, response)
       ELSE replyError(g1, c, message, InvalidStateError)

\* The try block of the onRequest listener after the handler returned.
replyResult(g, c, message, resultPayload) ==
    LET response == ResponseMessage(pushID(g, c), g.agentID[c], message.msgID,
                                    resultPayload, message.metadata, message.agentID)
        g1 == DrawID(g, c)
    IN IF CanPost(g1, c) THEN sendMsg(g1, c, response)
       ELSE replyError(g1, c, message, InvalidStateError)

\* JavaScript values of the file requests: an ArrayBuffer, a Uint8Array
\* view on one, a number, an array.
ArrayBuffer(b) == [t |-> "ArrayBuffer", v |-> b]
Uint8Array(b) == [t |-> "Uint8Array", v |-> b]
Num(n) == [t |-> "number", v |-> n]
ArrayOf(elements) == [t |-> "array", v |-> elements]

PayloadTypeError ==
    [name |-> "TypeError", message |-> "Payload must contain an ArrayBuffer",
     stack |-> "at opfs_write_file"]

\* WorkerOPFSChannel._setupHandlers: the handlers of the five request
\* types, by the name of the facade method each awaits.  The facade's file
\* operation is taken to succeed.
OPFSHandlers == {"read", "write", "delete", "copy", "move"}
OPFSRequestType(body) ==
    CASE body = "read" -> "opfs_read_file"
      [] body = "write" -> "opfs_write_file"
      [] body = "delete" -> "opfs_delete_entry"
      [] body = "copy" -> "opfs_copy_dir"
      [] body = "move" -> "opfs_move_dir"

opfsHandler(body, payload) ==
    CASE body = "read" -> [ok |-> TRUE, value |-> ArrayBuffer(0)]
      [] body = "write" ->
            IF payload # <<>> /\ "buffer" \in DOMAIN payload[1]
               /\ payload[1].buffer.t = "ArrayBuffer"
            THEN [ok |-> TRUE, value |-> [success |-> TRUE]]
            ELSE [ok |-> FALSE, value |-> PayloadTypeError]
      [] OTHER -> [ok |-> TRUE, value |-> [success |-> TRUE]]

\* The handler of a suspended onRequest listener settles: the listener
\* resumes after its await.
finishHandler(g, task) ==
    LET g1 == [g EXCEPT !.tasks = @ \ {task}]
    IN IF task.body = "echo"
       THEN replyResult(g1, task.channel, task.message, task.message.payload)
       ELSE IF task.body \in OPFSHandlers
       THEN LET r == opfsHandler(task.body, task.message.payload)
            IN IF r.ok THEN replyResult(g1, task.channel, task.message, <<r.value>>)
               ELSE replyError(g1, task.channel, task.message, r.value)
       ELSE replyError(g1, task.channel, task.message, HandlerError)

HandlerFinish(task) ==
    /\ task \in tasks
    /\ Commit(finishHandler(State, task))
    /\ UNCHANGED <<nRequests, nSends>>

\* The setTimeout callback without the delete of the entry.
timerCallbackKeepsEntry(g, requestMsgID) ==
    reject(g, requestMsgID, RequestTimeoutError(requestMsgID))

\* The setTimeout callback of request().
timerCallback(g, requestMsgID) ==
    LET c == g.promises[requestMsgID].owner
    IN reject(DeletePending(g, c, requestMsgID), requestMsgID,
              RequestTimeoutError(requestMsgID))

TimerFire(handle) ==
    /\ handle \in timers
    /\ Commit(timerCallback([State EXCEPT !.timers = @ \ {handle}], handle))
    /\ UNCHANGED <<nRequests, nSends>>

Close(c) ==
    /\ status[c] = "open"
    /\ Commit(close(State, c))
    /\ UNCHANGED <<nRequests, nSends>>

\* Application code sends a reply it built itself with the message model: a
\* ResponseMessage naming some issued request, an ErrorMessage as built
\* (metadata null), or an ErrorMessage whose metadata it set to name a request.
AppMessages(g, c) ==
    LET ids == DOMAIN g.promises
        e == ErrorMessage(pushID(g, c), pushID(DrawID(g, c), c), g.agentID[c], HandlerError, <<>>, NoAgent)
    IN {ResponseMessage(pushID(g, c), g.agentID[c], rid, <<AppPayload>>, <<>>, NoAgent) :
            rid \in ids}
       \cup {e}
       \cup {[e EXCEPT !.metadata = <<[requestMsgID |-> rid]>>] : rid \in ids}

SendMsg(c, message) ==
    /\ status[c] = "open"
    /\ nSends < MaxSends
    /\ nSends' = nSends + 1
    /\ Commit(sendMsg([State EXCEPT !.nextID[c] = message.msgID[2] + 1], c, message))
    /\ UNCHANGED nRequests

ProtocolNext ==
    \/ \E c \in Channels, type \in RequestTypes, p \in Payloads :
          \E to \in Recipients(c) : Request(c, type, <<p>>, to)
    \/ \E c \in Channels, type \in RequestTypes, body \in HandlerBodies :
          OnRequest(c, type, body)
    \/ \E c \in Channels : \E message \in inbox[c] : Deliver(c, message)
    \/ \E task \in tasks : HandlerFinish(task)
    \/ \E handle \in timers : TimerFire(handle)
    \/ \E c \in Channels : Close(c)

Next ==
    \/ ProtocolNext
    \/ \E c \in Channels : \E message \in AppMessages(State, c) : SendMsg(c, message)

Spec == Init /\ [][Next]_vars

\* The event loop runs every queued message task and resumes every
\* suspended listener whose handler has settled.
EventLoop ==
    /\ WF_vars(\E c \in Channels : \E message \in inbox[c] : Deliver(c, message))
    /\ WF_vars(\E task \in tasks : HandlerFinish(task))

\* The channels with only the library replying, under a fair event loop.
ProtocolSpec == Init /\ [][ProtocolNext]_vars /\ EventLoop

\* The same, where an armed timer eventually fires.
TimerSpec == ProtocolSpec /\ WF_vars(\E handle \in timers : TimerFire(handle))

\* ------------------------------------------------------- observed steps

\* The same operations with a record of what each step does.  The request
\* types and recipients range over more than the served type and the peers:
\* a type nobody serves, the sender's own identity as recipient.
MaxListeners == 2

ObservedRequestTypes == RequestTypes \cup {"stat"}
ListenerBodies == {"f", "throws"}
ListenerTypes == {HelloType, GreetingType}
AllAgents == {AgentNameOf(c) : c \in Channels}

\* new AsyncChannel(channelName, agentName) in a context that has none.
Construct(c) ==
    /\ status[c] = "none"
    /\ Observe(Constructor(State, c, AgentNameOf(c)))
    /\ UNCHANGED <<nRequests, nSends>>

\* Listeners the application registered with on() on the open channels.
RECURSIVE CountListeners(_, _)
CountListeners(f, S) ==
    IF S = {} THEN 0
    ELSE LET x == CHOOSE y \in S : TRUE
         IN Cardinality({i \in 1..Len(f[x[1]][x[2]]) : f[x[1]][x[2]][i].kind = "listener"})
            + CountListeners(f, S \ {x})

NumListeners == CountListeners(listeners, Channels \X MsgTypes)

\* on(type, callback) by the application.
On(c, type, body) ==
    /\ status[c] = "open"
    /\ NumListeners < MaxListeners
    /\ Observe(on(State, c, type, Callback("listener", "", body)))
    /\ UNCHANGED <<nRequests, nSends>>

\* off(type, callback) by the application, for any callback it holds.
Off(c, type, body) ==
    /\ status[c] # "none"
    /\ Observe(off(State, c, type, Callback("listener", "", body)))
    /\ UNCHANGED <<nRequests, nSends>>

ObsRequest(c, type, payload, toAgent) ==
    /\ status[c] = "open"
    /\ nRequests < MaxRequests
    /\ nRequests' = nRequests + 1
    /\ Observe(request(State, c, type, payload, toAgent))
    /\ UNCHANGED nSends

ObsOnRequest(c, requestType, body) ==
    /\ status[c] = "open"
    /\ NumHandlers < MaxHandlers
    /\ Observe(onRequest(State, c, requestType, body))
    /\ UNCHANGED <<nRequests, nSends>>

ObsDeliver(c, message) ==
    /\ message \in inbox[c]
    /\ status[c] = "open"
    /\ Observe(messageRouter([State EXCEPT !.inbox[c] = @ \ {message}], c, message))
    /\ UNCHANGED <<nRequests, nSends>>

ObsHandlerFinish(task) ==
    /\ task \in tasks
    /\ Observe(finishHandler(State, task))
    /\ UNCHANGED <<nRequests, nSends>>

ObsClose(c) ==
    /\ status[c] = "open"
    /\ Observe(close(State, c))
    /\ UNCHANGED <<nRequests, nSends>>

\* A string property of an object literal.
Str(v) == [t |-> "string", v |-> v]

\* What a script hands to postMessage of its own BroadcastChannel on the
\* name: a number, null, objects without a string type, objects without
\* an agentID or with an empty one.
ForeignData ==
    {[jsType |-> "number"],
     [jsType |-> "null"],
     [jsType |-> "object", agentID |-> Str("main:ui")],
     [jsType |-> "object", type |-> [t |-> "number", v |-> "7"], agentID |-> Str("main:ui")],
     [jsType |-> "object", type |-> Str(HelloType)],
     [jsType |-> "object", type |-> Str(HelloType), agentID |-> Str("")]}

\* An object literal that looks like a reply, handed to sendMsg.
PlainObjects == {[jsType |-> "object", type |-> Str(ResponseType), payload |-> Str("done")]}

\* postMessage of a BroadcastChannel other than the channels' own: every
\* open channel on the name is queued a copy.
Foreign(data) ==
    /\ nSends < MaxSends
    /\ nSends' = nSends + 1
    /\ \E c \in Channels : status[c] = "open"
    /\ Observe([State EXCEPT !.inbox = [d \in Instances |->
                  IF State.status[d] = "open" THEN @[d] \cup {data} ELSE @[d]]])
    /\ UNCHANGED nRequests

\* What the application sends besides replies: greeting(toAgentID) for any
\* identity, its own included, a hello addressed to one agent, built with
\* the base constructor, and an object literal.
HandshakeMessages(g, c) ==
    {GreetingMessage(pushID(g, c), g.agentID[c], to) : to \in AllAgents}
    \cup {BaseMessage(pushID(g, c), g.agentID[c], HelloType, <<>>, <<EmptyObject>>, to) :
            to \in AllAgents}
    \cup PlainObjects

\* Replies the application builds, addressed to an agent: a response and a
\* system_error naming an issued request.
AddressedReplies(g, c) ==
    LET ids == DOMAIN g.promises
        e == ErrorMessage(pushID(g, c), pushID(DrawID(g, c), c), g.agentID[c], HandlerError, <<>>, NoAgent)
    IN {ResponseMessage(pushID(g, c), g.agentID[c], rid, <<AppPayload>>, <<>>, to) :
            rid \in ids, to \in AllAgents}
       \cup {[e EXCEPT !.metadata = <<[requestMsgID |-> rid]>>, !.toAgent = to] :
            rid \in ids, to \in AllAgents}

\* sendMsg(message) by the application; an instance carries the identifier
\* its constructor drew.
ObsSendMsg(c, message) ==
    /\ status[c] = "open"
    /\ nSends < MaxSends
    /\ nSends' = nSends + 1
    /\ LET g == IF InstanceOfBaseMessage(message)
                THEN [State EXCEPT !.nextID[c] = message.msgID[2] + 1]
                ELSE State
       IN Observe(sendMsg(g, c, message))
    /\ UNCHANGED nRequests

\* Nothing is constructed.
DispatchInit ==
    /\ status = Blank.status
    /\ agentID = Blank.agentID
    /\ listeners = Blank.listeners
    /\ pendingRequests = Blank.pendingRequests
    /\ timers = Blank.timers
    /\ promises = Blank.promises
    /\ inbox = Blank.inbox
    /\ tasks = Blank.tasks
    /\ nextID = Blank.nextID
    /\ nRequests = 0
    /\ nSends = 0
    /\ trace = <<>>
    /\ heard = {}
    /\ clock = NoClock
    /\ file = NewFile

\* Contexts construct their channels, register listeners, exchange
\* handshake messages, receive foreign data and close.
DispatchNext ==
    \/ \E c \in Channels : Construct(c)
    \/ \E c \in Channels, type \in ListenerTypes, body \in ListenerBodies : On(c, type, body)
    \/ \E c \in Channels : \E message \in inbox[c] : ObsDeliver(c, message)
    \/ \E c \in Channels : ObsClose(c)
    \/ \E c \in Channels : \E message \in HandshakeMessages(State, c) : ObsSendMsg(c, message)
    \/ \E data \in ForeignData : Foreign(data)

DispatchSpec == DispatchInit /\ [][DispatchNext]_vars

\* The contexts an instance is constructed in and the agentName it is given
\* ("" is the default null).
AgentScopes == {"main", "worker"}
PreferredNames == {"", "ui"}

\* new AsyncChannel(channelName, agentName) in a main-thread or unnamed
\* worker context, with or without an agentName.
ConstructNamed(c, agentScope, preferredName) ==
    /\ status[c] = "none"
    /\ Observe(Constructor(State, c, generateAgentID(agentScope, preferredName, "", c)))
    /\ UNCHANGED <<nRequests, nSends>>

\* A message task, logged: which instance ran its listeners with which
\* direct message.
LoggedDeliver(c, message) ==
    /\ message \in inbox[c]
    /\ status[c] = "open"
    /\ LET g == messageRouter([State EXCEPT !.inbox[c] = @ \ {message}], c, message)
           ran == \E k \in 1..Len(g.trace) :
                    g.trace[k].op = "dispatch" /\ g.trace[k].channel = c
       IN Observe(IF ran /\ InstanceOfBaseMessage(message) /\ message.toAgent # NoAgent
                  THEN [g EXCEPT !.heard = @ \cup {<<message.msgID, c>>}]
                  ELSE g)
    /\ UNCHANGED <<nRequests, nSends>>

\* Instances constructed with any names, the default included, and the
\* handshake they run.
NamesNext ==
    \/ \E c \in Instances, agentScope \in AgentScopes, name \in PreferredNames :
            ConstructNamed(c, agentScope, name)
    \/ \E c \in Instances : \E message \in inbox[c] : LoggedDeliver(c, message)

NamesSpec == DispatchInit /\ [][NamesNext]_vars

\* The public method a step is a call of, with its deciding argument.
Call(g, c, method, arg) == Record(g, "call", c, <<method, arg>>)

\* What the application passes to the producers: a valid and an invalid
\* level, event name and status key, any recipient or none for greeting(),
\* its own agent or an empty one and a valid or empty type for a message it
\* constructs itself.
Levels == {"info", "verbose"}
EventNames == {"saved", ""}
StatusKeys == {"cpu", ""}

Log(c, level) ==
    /\ status[c] # "none"
    /\ nSends < MaxSends
    /\ nSends' = nSends + 1
    /\ Observe(log(Call(State, c, "log", level), c, "started", <<>>, level, NoAgent))
    /\ UNCHANGED nRequests

Err(c, err) ==
    /\ status[c] # "none"
    /\ nSends < MaxSends
    /\ nSends' = nSends + 1
    /\ Observe(channelError(Call(State, c, "error", err.name), c, err, <<>>, NoAgent))
    /\ UNCHANGED nRequests

Emit(c, name) ==
    /\ status[c] # "none"
    /\ nSends < MaxSends
    /\ nSends' = nSends + 1
    /\ Observe(event(Call(State, c, "event", name), c, name, <<>>, NoAgent))
    /\ UNCHANGED nRequests

Status(c, key) ==
    /\ status[c] # "none"
    /\ nSends < MaxSends
    /\ nSends' = nSends + 1
    /\ Observe(channelStatus(Call(State, c, "status", key), c, key, 1, NoAgent))
    /\ UNCHANGED nRequests

Greeting(c, toAgentID) ==
    /\ status[c] # "none"
    /\ nSends < MaxSends
    /\ nSends' = nSends + 1
    /\ Observe(greeting(Call(State, c, "greeting", toAgentID), c, toAgentID))
    /\ UNCHANGED nRequests

\* sendMsg(new BaseMessage(agent, type, null)) by the application.
PostNew(c, agent, type) ==
    /\ status[c] # "none"
    /\ nSends < MaxSends
    /\ nSends' = nSends + 1
    /\ Observe(sendNew(Call(State, c, "new BaseMessage", <<agent, type>>), c,
                       BaseMessage(pushID(State, c), agent, type, <<>>,
                                   <<EmptyObject>>, NoAgent)))
    /\ UNCHANGED nRequests

\* Construction with its handshake, the producers, and close.
ProducerNext ==
    \/ \E c \in Channels : Construct(c)
    \/ \E c \in Channels, level \in Levels : Log(c, level)
    \/ \E c \in Channels : Err(c, HandlerError)
    \/ \E c \in Channels, name \in EventNames : Emit(c, name)
    \/ \E c \in Channels, key \in StatusKeys : Status(c, key)
    \/ \E c \in Channels, to \in AllAgents \cup {NoAgent} : Greeting(c, to)
    \/ \E c \in Channels : \E agent \in {agentID[c], ""}, type \in {EventType, ""} :
            PostNew(c, agent, type)
    \/ \E c \in Channels : \E message \in inbox[c] : ObsDeliver(c, message)
    \/ \E c \in Channels : ObsClose(c)

ProducerSpec == DispatchInit /\ [][ProducerNext]_vars

\* The msgID of a request made in a context outside the model.
OriginalID == <<0, 1>>

\* A request the application relays: built with the base constructor, its
\* metadata naming the request type and the msgID of the original request.
RelayedRequests(g, c) ==
    {BaseMessage(pushID(g, c), g.agentID[c], RequestType, <<p>>,
                 <<[requestType |-> type, requestMsgID |-> OriginalID]>>, NoAgent) :
        p \in Payloads, type \in RequestTypes}

\* Requests made with request() and relayed requests, served by onRequest
\* registrations.
RelayNext ==
    \/ \E c \in Channels, type \in RequestTypes, p \in Payloads :
            ObsRequest(c, type, <<p>>, NoAgent)
    \/ \E c \in Channels, type \in RequestTypes, body \in HandlerBodies :
            ObsOnRequest(c, type, body)
    \/ \E c \in Channels : \E message \in RelayedRequests(State, c) : ObsSendMsg(c, message)
    \/ \E c \in Channels : \E message \in inbox[c] : ObsDeliver(c, message)
    \/ \E task \in tasks : ObsHandlerFinish(task)

RelaySpec == Init /\ [][RelayNext]_vars

\* OPFSNotifier: fileCreated(path, bytesH) ... entryMoved(oldPath, newPath,
\* kind), each this.event(name, {...}) with the emitter's event name.
emitter(g, c, name) == event(g, c, name, <<[path |-> "/a.txt"]>>, NoAgent)

\* OPFSNotifier: onFileCreated(callback) ... onEntryMoved(callback), each
\* this.on(name, callback) with the paired emitter's event name.
listenerMethod(g, c, name, callback) == on(g, c, name, callback)

\* The order onAnyChange calls the six listener methods in.
FsEventOrder == <<"file_created", "file_modified", "file_deleted",
                  "dir_created", "dir_deleted", "entry_moved">>

RECURSIVE onEach(_, _, _, _)
onEach(g, c, callback, i) ==
    IF i > Len(FsEventOrder) THEN g
    ELSE onEach(listenerMethod(g, c, FsEventOrder[i], callback), c, callback, i + 1)

\* OPFSNotifier.onAnyChange(callback)
onAnyChange(g, c, callback) == onEach(g, c, callback, 1)

\* new OPFSNotifier(agentName)
NotifierConstruct(c) ==
    /\ status[c] = "none"
    /\ Observe(BaseChannelConstructor(State, c, AgentNameOf(c)))
    /\ UNCHANGED <<nRequests, nSends>>

OnFsEvent(c, name, body) ==
    /\ status[c] = "open"
    /\ NumListeners < MaxListeners
    /\ Observe(listenerMethod(State, c, name, Callback("listener", "", body)))
    /\ UNCHANGED <<nRequests, nSends>>

OnAnyChange(c, body) ==
    /\ status[c] = "open"
    /\ NumListeners < MaxListeners
    /\ Observe(onAnyChange(State, c, Callback("listener", "", body)))
    /\ UNCHANGED <<nRequests, nSends>>

EmitFsEvent(c, name) ==
    /\ status[c] = "open"
    /\ nSends < MaxSends
    /\ nSends' = nSends + 1
    /\ Observe(emitter(Call(State, c, "emit", name), c, name))
    /\ UNCHANGED nRequests

\* Notifier instances are constructed, register callbacks, emit file
\* system events and receive them.
NotifierNext ==
    \/ \E c \in Channels : NotifierConstruct(c)
    \/ \E c \in Channels, name \in FsEvents : OnFsEvent(c, name, "f")
    \/ \E c \in Channels : OnAnyChange(c, "f")
    \/ \E c \in Channels, name \in FsEvents : EmitFsEvent(c, name)
    \/ \E c \in Channels : \E message \in inbox[c] : ObsDeliver(c, message)

NotifierSpec == DispatchInit /\ [][NotifierNext]_vars

\* Construction, registration and removal of listeners, and close; off()
\* is also called for a type nobody listens to.
ListenerNext ==
    \/ \E c \in Channels : Construct(c)
    \/ \E c \in Channels, type \in ListenerTypes, body \in ListenerBodies : On(c, type, body)
    \/ \E c \in Channels, type \in ListenerTypes \cup {GoodbyeType}, body \in ListenerBodies :
            Off(c, type, body)
    \/ \E c \in Channels : ObsClose(c)

ListenerSpec == DispatchInit /\ [][ListenerNext]_vars

\* Construction, registration, delivery and close alone.
HandshakeNext ==
    \/ \E c \in Channels : Construct(c)
    \/ \E c \in Channels, type \in ListenerTypes, body \in ListenerBodies : On(c, type, body)
    \/ \E c \in Channels : \E message \in inbox[c] : ObsDeliver(c, message)
    \/ \E c \in Channels : ObsClose(c)

\* The handshake under an event loop that runs every queued message task.
HandshakeSpec ==
    /\ DispatchInit
    /\ [][HandshakeNext]_vars
    /\ WF_vars(\E c \in Channels : \E message \in inbox[c] : ObsDeliver(c, message))

\* Open channels issue, serve and answer requests of several types and
\* recipients, the application sends addressed replies, channels close.
RequestNext ==
    \/ \E c \in Channels, type \in ObservedRequestTypes, p \in Payloads :
          \E to \in Recipients(c) \cup {AgentNameOf(c)} : ObsRequest(c, type, <<p>>, to)
    \/ \E c \in Channels, type \in ObservedRequestTypes, body \in HandlerBodies :
          ObsOnRequest(c, type, body)
    \/ \E c \in Channels : \E message \in inbox[c] : ObsDeliver(c, message)
    \/ \E task \in tasks : ObsHandlerFinish(task)
    \/ \E c \in Channels : ObsClose(c)
    \/ \E c \in Channels : \E message \in AddressedReplies(State, c) : ObsSendMsg(c, message)

RequestSpec == Init /\ [][RequestNext]_vars

\* ------------------------------------------------------------ vocabulary

Owner(id) == promises[id].owner

OwnedBy(c) == {id \in DOMAIN promises : promises[id].owner = c}

Sent(id) == promises[id].state = "pending"

Resolved(id) == promises[id].state = "fulfilled"

RejectedTimeout(id) ==
    /\ promises[id].state = "rejected"
    /\ promises[id].reason[1].name = "RequestTimeoutError"

RejectedClosed(id) ==
    /\ promises[id].state = "rejected"
    /\ promises[id].reason[1].message = "Channel closed. Request aborted."

RejectedRemote(id) ==
    /\ promises[id].state = "rejected"
    /\ promises[id].reason[1].remoteStack # <<>>

ReplyTypes == {ResponseType, ErrorType}

\* This step is the transport's delivery of message m to channel c.
StepDelivers(c, m) ==
    /\ status[c] = "open"
    /\ status'[c] = "open"
    /\ m \in inbox[c]
    /\ m \notin inbox'[c]

\* This step is the expiry of the timer with this handle.
StepExpires(handle) ==
    /\ handle \in timers
    /\ handle \notin timers'
    /\ inbox' = inbox
    /\ status' = status

\* This step is close() on channel c.
StepCloses(c) == status[c] = "open" /\ status'[c] = "closed"

\* Channel c dispatches m to its listeners.
PassesFilter(c, m) ==
    /\ m.agentID # NoAgent
    /\ m.toAgent = NoAgent \/ m.toAgent = agentID[c]

Matches(c, m) ==
    /\ MetadataRequestMsgID(m) # <<>>
    /\ MetadataRequestMsgID(m)[1] \in DOMAIN pendingRequests[c]

\* The table entry, the timer and the promise of request id of channel c
\* are the same after this step.
Untouched(c, id) ==
    /\ id \in DOMAIN pendingRequests'[c]
    /\ pendingRequests'[c][id] = pendingRequests[c][id]
    /\ (id \in timers') = (id \in timers)
    /\ promises'[id] = promises[id]

\* ---------------------------------------------------------------- claims

\* C1: for every request issued by request(), at most one of the terminal
\* transitions (response, remote error, timeout, close) ever fires: resolve
\* and reject of its promise are called at most once altogether, under
\* every interleaving.
C1_AtMostOneTerminalTransition ==
    \A id \in DOMAIN promises : promises[id].settles <= 1

\* A response that lost the race against the timer has been dispatched on
\* the requester: the only request timed out, the peer posted exactly one
\* message (its response) and the requester has taken it.
C1_Witness ==
    /\ nSends = 0
    /\ tasks = {}
    /\ \A c \in Channels : status[c] = "open" /\ inbox[c] = {}
    /\ \E id \in DOMAIN promises :
        /\ DOMAIN promises = {id}
        /\ RejectedTimeout(id)
        /\ promises[id].settles = 1
        /\ \E b \in Channels \ {Owner(id)} :
            nextID[b] = InitState.nextID[b] + 1

\* C2: when a handler registered with onRequest throws or rejects for a
\* request R, the responder posts a system_error addressed to R's sender
\* whose metadata.requestMsgID is R's msgID.
C2_FailureStep ==
    \A task \in tasks :
        (task \notin tasks' /\ task.body = "fail" /\ status[task.channel] = "open") =>
            \A a \in Channels \ {task.channel} :
                status[a] = "open" =>
                    \E m \in inbox'[a] :
                        /\ m.type = ErrorType
                        /\ m.toAgent = task.message.agentID
                        /\ MetadataRequestMsgID(m) = <<task.message.msgID>>

C2_HandlerFailureReplied == [][C2_FailureStep]_vars

\* C3: close() rejects every pending request with the channel-closed error,
\* leaves the pending table empty and cancels every timer of the channel,
\* and a closed channel never has an entry or an armed timer again.
C3_CloseStep ==
    \A c \in Channels :
        StepCloses(c) =>
            /\ pendingRequests'[c] = EmptyObject
            /\ \A id \in DOMAIN pendingRequests[c] :
                /\ promises'[id].state = "rejected"
                /\ promises'[id].reason[1].message = "Channel closed. Request aborted."
                /\ id \notin timers'

C3_AfterClose ==
    \A c \in Channels :
        status[c] = "closed" =>
            /\ pendingRequests[c] = EmptyObject
            /\ \A id \in timers : Owner(id) # c

C3_CloseRejectsAll == [][C3_CloseStep]_vars /\ []C3_AfterClose

\* A channel was closed with two requests outstanding.
C3_Witness ==
    \E c \in Channels :
        /\ status[c] = "closed"
        /\ Cardinality({id \in OwnedBy(c) : RejectedClosed(id)}) >= 2

\* C4: a timer that expires while its entry is in the table removes the
\* entry and rejects the promise with a RequestTimeout error carrying the
\* request's msgID; no other entry, timer or promise is touched.
C4_ExpiryStep ==
    \A id \in timers :
        (StepExpires(id) /\ id \in DOMAIN pendingRequests[Owner(id)]) =>
            /\ id \notin DOMAIN pendingRequests'[Owner(id)]
            /\ promises'[id].state = "rejected"
            /\ promises'[id].reason[1].name = "RequestTimeoutError"
            /\ promises'[id].reason[1].requestMsgID = <<id>>
            /\ \A c \in Channels : \A k \in DOMAIN pendingRequests[c] :
                k # id => Untouched(c, k)

C4_TimeoutRejects == [][C4_ExpiryStep]_vars

\* One request timed out while another of the same channel is still pending.
C4_Witness ==
    \E id \in DOMAIN promises :
        /\ RejectedTimeout(id)
        /\ promises[id].reason[1].requestMsgID = <<id>>
        /\ \E k \in DOMAIN pendingRequests[Owner(id)] : k \in timers

\* C5: delivering a response or system_error whose metadata.requestMsgID is
\* absent or matches no entry of the receiving channel's pending table
\* leaves that channel's table, timers and promises unchanged.
C5_UnmatchedStep ==
    \A c \in Channels : \A m \in inbox[c] :
        (StepDelivers(c, m) /\ m.type \in ReplyTypes /\ ~Matches(c, m)) =>
            /\ pendingRequests'[c] = pendingRequests[c]
            /\ \A id \in OwnedBy(c) :
                /\ promises'[id] = promises[id]
                /\ (id \in timers') = (id \in timers)

C5_UnmatchedReplyIgnored == [][C5_UnmatchedStep]_vars

\* Application code sent a reply, it was delivered, and both outstanding
\* requests are as they were: nobody handles requests, nothing is in flight.
C5_Witness ==
    /\ nSends = 1
    /\ tasks = {}
    /\ NumHandlers = 0
    /\ \A c \in Channels : status[c] = "open" /\ inbox[c] = {}
    /\ Cardinality(DOMAIN promises) = 2
    /\ \A id \in DOMAIN promises : Sent(id) /\ id \in timers

\* The identifiers a request can carry within the bounds: before its last
\* request a context has drawn for its construction, for its earlier
\* requests, for its replies to the requests of others and for what the
\* application sent.
MaxOffset == (MaxRequests - 1) * (1 + 2 * MaxHandlers) + 2 * MaxSends

RequestIDs ==
    {<<c, InitState.nextID[c] + k>> : c \in Channels, k \in 0..MaxOffset}

IDsCovered == DOMAIN promises \subseteq RequestIDs

HasEcho(b, type) ==
    \E i \in 1..Len(listeners[b][RequestType]) :
        /\ listeners[b][RequestType][i].kind = "onRequest"
        /\ listeners[b][RequestType][i].requestType = type
        /\ listeners[b][RequestType][i].body = "echo"

\* Request id with payload p is on its way to, or being handled by, an
\* open channel b whose handler for its type returns the payload.
C6_Served(id, p) ==
    /\ id \in DOMAIN promises
    /\ Sent(id)
    /\ \E b \in Channels :
        /\ status[b] = "open"
        /\ \/ \E m \in inbox[b] :
                /\ m.type = RequestType /\ m.msgID = id /\ m.payload = <<p>>
                /\ PassesFilter(b, m)
                /\ HasEcho(b, m.metadata[1].requestType)
           \/ \E task \in tasks :
                /\ task.channel = b /\ task.body = "echo"
                /\ task.message.msgID = id /\ task.message.payload = <<p>>

C6_Outcome(id, p) ==
    \/ \E c \in Channels : status[c] = "closed"
    \/ /\ id \in DOMAIN promises
       /\ \/ Resolved(id) /\ promises[id].value = <<p>>
          \/ promises[id].state = "rejected"

\* C6: if B has registered onRequest(T, h) with h returning v and A
\* requests T (broadcast or addressed to B), then, unless a channel closes
\* or A's timer expires first, A's promise is eventually resolved with v.
C6_RequestResolved ==
    /\ []IDsCovered
    /\ \A id \in RequestIDs : \A p \in Payloads :
        C6_Served(id, p) ~> C6_Outcome(id, p)

\* A's promise is resolved with the value B's handler returned, both open.
C6_Witness ==
    /\ \A c \in Channels : status[c] = "open"
    /\ nSends = 0
    /\ \E id \in DOMAIN promises : \E p \in Payloads :
        /\ Resolved(id) /\ promises[id].value = <<p>>
        /\ \E b \in Channels \ {Owner(id)} : \E type \in RequestTypes : HasEcho(b, type)

\* C7: a request ID is a key of a channel's pending table iff the request
\* was issued by that channel and its promise is not settled; the table
\* changes only by request() (insert) and by the response handler, a timer
\* expiry or close() (remove).
C7_KeysAreUnsettled ==
    \A c \in Channels :
        DOMAIN pendingRequests[c] = {id \in OwnedBy(c) : Sent(id)}

C7_TableStep ==
    \A c \in Channels :
        pendingRequests'[c] # pendingRequests[c] =>
            \/ /\ nRequests' = nRequests + 1
               /\ \E id \in (DOMAIN pendingRequests'[c]) \ (DOMAIN pendingRequests[c]) :
                    /\ DOMAIN pendingRequests'[c] = (DOMAIN pendingRequests[c]) \cup {id}
                    /\ \A k \in DOMAIN pendingRequests[c] :
                        pendingRequests'[c][k] = pendingRequests[c][k]
            \/ \E m \in inbox[c] :
                    /\ StepDelivers(c, m) /\ m.type \in ReplyTypes /\ Matches(c, m)
                    /\ pendingRequests'[c] =
                         [k \in (DOMAIN pendingRequests[c]) \ {MetadataRequestMsgID(m)[1]}
                            |-> pendingRequests[c][k]]
            \/ \E id \in OwnedBy(c) :
                    /\ StepExpires(id)
                    /\ pendingRequests'[c] =
                         [k \in (DOMAIN pendingRequests[c]) \ {id} |-> pendingRequests[c][k]]
            \/ StepCloses(c) /\ pendingRequests'[c] = EmptyObject

C7_PendingTable == []C7_KeysAreUnsettled /\ [][C7_TableStep]_vars

\* A channel's table holds one request while another request it issued
\* has been answered and removed.
C7_Witness ==
    \E c \in Channels :
        /\ DOMAIN pendingRequests[c] # {}
        /\ \E id \in OwnedBy(c) : Resolved(id) /\ id \notin DOMAIN pendingRequests[c]

\* C8: every request issued by request() eventually reaches a terminal
\* state, given that an armed timer eventually fires.
C8_EveryRequestSettles ==
    /\ []IDsCovered
    /\ \A id \in RequestIDs :
        (id \in DOMAIN promises) ~> (id \in DOMAIN promises /\ ~Sent(id))

\* A request timed out while the responder, closed in the meantime, still
\* has its handler running.
C8_Witness ==
    \E task \in tasks :
        /\ status[task.channel] = "closed"
        /\ task.message.msgID \in DOMAIN promises
        /\ RejectedTimeout(task.message.msgID)

\* C9: a step that settles one pending request by a response, a remote
\* error or a timeout leaves the entry, the timer and the promise of every
\* other pending request of the channel unchanged.
C9_SettleStep ==
    \A c \in Channels :
        status'[c] = "open" =>
            Cardinality({id \in DOMAIN pendingRequests[c] : ~Untouched(c, id)}) <= 1

C9_IndependentRequests == [][C9_SettleStep]_vars

\* Of two requests of one channel the later one was answered first.
C9_Witness ==
    \E c \in Channels : \E id1, id2 \in OwnedBy(c) :
        /\ id1[2] < id2[2]
        /\ Sent(id1) /\ id1 \in timers /\ id1 \in DOMAIN pendingRequests[c]
        /\ Resolved(id2)

\* C10: dispatching a reply whose metadata.requestMsgID matches a pending
\* entry clears the entry's timer, removes the entry, and rejects the
\* promise with the remote stack and data for a system_error, and
\* otherwise resolves it with the message payload.
C10_MatchedStep ==
    \A c \in Channels : \A m \in inbox[c] :
        (StepDelivers(c, m) /\ PassesFilter(c, m) /\ m.type \in ReplyTypes /\ Matches(c, m)) =>
            LET rid == MetadataRequestMsgID(m)[1] IN
            /\ rid \notin timers'
            /\ rid \notin DOMAIN pendingRequests'[c]
            /\ IF m.type = ErrorType
               THEN /\ promises'[rid].state = "rejected"
                    /\ promises'[rid].reason[1].remoteStack = <<m.payload[1].stack>>
                    /\ promises'[rid].reason[1].remoteData = <<m.payload[1].data>>
               ELSE /\ promises'[rid].state = "fulfilled"
                    /\ promises'[rid].value = m.payload

C10_MatchedReplySettles == [][C10_MatchedStep]_vars

\* A request was rejected with a remote error.
C10_Witness ==
    \E id \in DOMAIN promises :
        /\ RejectedRemote(id)
        /\ promises[id].reason[1].remoteStack = <<HandlerError.stack>>
        /\ id \notin timers
        /\ id \notin DOMAIN pendingRequests[Owner(id)]

\* ------------------------------------------------- claims on observed steps

\* The events of one kind in a trace, in order.
Ops(tr, op) == SelectSeq(tr, LAMBDA e : e.op = op)

\* The messages of one type a step handed to the transport, in order.
Posts(tr, type) ==
    SelectSeq(tr, LAMBDA e :
        e.op = "post" /\ InstanceOfBaseMessage(e.arg) /\ e.arg.type = type)

\* C11: every ResponseMessage an onRequest registration posts for a
\* request R is addressed to R's sender, carries R's msgID as
\* metadata.requestMsgID, echoes every key of R's metadata (requestType
\* included) and has the handler's resolved value as payload.
C11_ResponseStep ==
    \A task \in tasks :
        task \notin tasks' =>
            LET R == task.message
                sent == Posts(trace', ResponseType)
            IN \A i \in 1..Len(sent) :
                LET m == sent[i].arg IN
                /\ m.agentID = agentID[task.channel]
                /\ m.toAgent = R.agentID
                /\ MetadataRequestMsgID(m) = <<R.msgID>>
                /\ \A k \in DOMAIN R.metadata[1] :
                    k \in DOMAIN m.metadata[1] /\ m.metadata[1][k] = R.metadata[1][k]
                /\ task.body = "echo"
                /\ m.payload = R.payload

TaskOf(c, i, m) ==
    [channel |-> c, idx |-> i, body |-> listeners[c][RequestType][i].body, message |-> m]

\* C12: the handler of onRequest(T, h) is started for a dispatched request
\* if and only if the request's metadata.requestType is T; a request of
\* another type starts no handler and makes the registration post nothing:
\* the handlers a dispatch starts are those of the registrations of the
\* request's type, and replies are posted only when a handler has settled.
C12_FilterStep ==
    \A c \in Channels : \A m \in inbox[c] :
        (StepDelivers(c, m) /\ m.type = RequestType /\ PassesFilter(c, m)) =>
            /\ Ops(trace', "post") = <<>>
            /\ tasks' = tasks \cup
                 {TaskOf(c, i, m) : i \in {j \in 1..Len(listeners[c][RequestType]) :
                    /\ listeners[c][RequestType][j].kind = "onRequest"
                    /\ MetadataRequestType(m) = <<listeners[c][RequestType][j].requestType>>}}
            /\ \A i \in 1..Len(listeners[c][RequestType]) :
                LET cb == listeners[c][RequestType][i] IN
                cb.kind = "onRequest" =>
                    /\ \E k \in 1..Len(trace') :
                        /\ trace'[k].op = "invoke"
                        /\ trace'[k].channel = c
                        /\ trace'[k].arg = <<RequestType, i>>
                    /\ (TaskOf(c, i, m) \in tasks') <=> (MetadataRequestType(m) = <<cb.requestType>>)

\* A handler runs only for a request of the type it was registered for.
C12_TasksMatch ==
    \A task \in tasks :
        status[task.channel] = "open" =>
            MetadataRequestType(task.message) =
                <<listeners[task.channel][RequestType][task.idx].requestType>>

C12_RequestTypeFilter == [][C12_FilterStep]_vars /\ []C12_TasksMatch

\* A request was dispatched to the one registration there is, and no
\* handler was started for it: its type is not the registration's.
C12_Witness ==
    \E c \in Channels :
        /\ Len(trace) = 2
        /\ trace[1].op = "dispatch"
        /\ trace[1].arg.type = RequestType
        /\ trace[2].op = "invoke"
        /\ trace[2].channel = c
        /\ trace[2].arg = <<RequestType, 1>>
        /\ listeners[c][RequestType][1].kind = "onRequest"
        /\ MetadataRequestType(trace[1].arg) # <<listeners[c][RequestType][1].requestType>>
        /\ tasks = {}

\* C13: delivering a message whose toAgent is set and is not the receiving
\* channel's agentID invokes no listener of the channel (handshake,
\* response and request handlers included), posts nothing and settles no
\* pending request: the step only takes the message off the queue.
C13_MisaddressedStep ==
    \A c \in Channels : \A m \in inbox[c] :
        (StepDelivers(c, m) /\ InstanceOfBaseMessage(m)
            /\ m.toAgent # NoAgent /\ m.toAgent # agentID[c]) =>
            /\ trace' = <<>>
            /\ inbox' = [inbox EXCEPT ![c] = @ \ {m}]
            /\ UNCHANGED <<status, agentID, listeners, pendingRequests, timers,
                           promises, tasks, nextID>>

C13_DirectMessageFilter == [][C13_MisaddressedStep]_vars

\* Channel c has one request pending; its peer, which issued none and
\* serves none, sent a reply naming that request but addressed to itself;
\* c took it off the queue and the request is pending as before.
C13_Witness ==
    \E c \in Channels : \E id \in DOMAIN pendingRequests[c] :
        /\ nRequests = 1
        /\ nSends = 1
        /\ NumHandlers = 0
        /\ trace = <<>>
        /\ Sent(id) /\ id \in timers
        /\ \A d \in Channels : status[d] = "open" /\ inbox[d] = {}
        /\ \E b \in Channels \ {c} : nextID[b] > InitState.nextID[b]

\* The messages a step dispatched to the listeners of channel c.
Dispatched(tr, c) ==
    SelectSeq(tr, LAMBDA e : e.op = "dispatch" /\ e.channel = c)

\* The listener positions a step invoked, in order.
Invoked(tr) == [k \in 1..Len(Ops(tr, "invoke")) |-> Ops(tr, "invoke")[k].arg[2]]

\* C14: an open channel that is delivered a hello from agent A posts
\* exactly one greeting for it, addressed to A; a delivered greeting
\* invokes the greeting listeners of the channel it is addressed to and of
\* no other channel; the delivery of any other message posts no greeting.
C14_HandshakeStep ==
    \A c \in Channels : \A m \in inbox[c] :
        (StepDelivers(c, m) /\ InstanceOfBaseMessage(m)) =>
            LET greetings == Posts(trace', GreetingType) IN
            /\ (m.type = HelloType /\ PassesFilter(c, m)) =>
                /\ Len(greetings) = 1
                /\ greetings[1].channel = c
                /\ greetings[1].arg.agentID = agentID[c]
                /\ greetings[1].arg.toAgent = m.agentID
            /\ ~(m.type = HelloType /\ PassesFilter(c, m)) => greetings = <<>>
            /\ m.type = GreetingType =>
                IF m.toAgent = agentID[c]
                THEN Len(Ops(trace', "invoke")) = Len(listeners[c][GreetingType])
                ELSE Ops(trace', "invoke") = <<>>

C14_GreetingPerHello == [][C14_HandshakeStep]_vars

\* A channel with a greeting listener has just answered the hello of its
\* peer with one greeting addressed to the peer.
C14_Witness ==
    \E c \in Channels : \E b \in Channels \ {c} :
        /\ Len(Dispatched(trace, c)) = 1
        /\ Dispatched(trace, c)[1].arg.type = HelloType
        /\ Dispatched(trace, c)[1].arg.agentID = agentID[b]
        /\ Len(Posts(trace, GreetingType)) = 1
        /\ Posts(trace, GreetingType)[1].arg.toAgent = agentID[b]
        /\ Len(listeners[b][GreetingType]) > 0

\* Channel a has just been constructed.
StepConstructs(a) == status[a] = "none" /\ status'[a] = "open"

\* The hello of a's construction is queued for b.
HelloQueued(a, b) ==
    \E m \in inbox[b] :
        /\ InstanceOfBaseMessage(m)
        /\ m = HelloMessage(m.msgID, agentID[a])

\* A greeting of b addressed to a has just been dispatched on a.
GreetingDispatched(a, b) ==
    \E i \in 1..Len(trace) :
        /\ trace[i].op = "dispatch"
        /\ trace[i].channel = a
        /\ trace[i].arg.type = GreetingType
        /\ trace[i].arg.agentID = agentID[b]
        /\ trace[i].arg.toAgent = agentID[a]

C15_ConstructStep ==
    \A a \in Channels :
        StepConstructs(a) =>
            /\ Len(Ops(trace', "post")) = 1
            /\ Len(Posts(trace', HelloType)) = 1
            /\ Posts(trace', HelloType)[1].arg.agentID = agentID'[a]
            /\ Posts(trace', HelloType)[1].arg.toAgent = NoAgent
            /\ \A b \in Channels \ {a} :
                status[b] = "open" => Posts(trace', HelloType)[1].arg \in inbox'[b]

\* C15: a channel A constructed while B is open on the name broadcasts
\* exactly one hello in its construction, the hello is queued for B, and,
\* unless one of the two closes, a greeting of B addressed to A is
\* eventually dispatched on A.
C15_HelloIsGreeted ==
    /\ [][C15_ConstructStep]_vars
    /\ \A a \in Channels : \A b \in Channels \ {a} :
        (status[a] = "open" /\ status[b] = "open" /\ HelloQueued(a, b))
            ~> (status[a] = "closed" \/ status[b] = "closed" \/ GreetingDispatched(a, b))

\* Both channels are open and the greeting for the later one has just
\* been dispatched on it.
C15_Witness ==
    \E a \in Channels : \E b \in Channels \ {a} :
        /\ status[a] = "open" /\ status[b] = "open"
        /\ GreetingDispatched(a, b)

\* Channel c dispatches the message-model instance m to its listeners.
StepDispatches(c, m) ==
    /\ StepDelivers(c, m)
    /\ InstanceOfBaseMessage(m)
    /\ PassesFilter(c, m)

Throws(cb) == cb.kind = "listener" /\ cb.body = "throws"

\* C16: when a listener throws during the dispatch of a message, every
\* listener registered after it for the type is still invoked for the
\* message, and no exception leaves the dispatch routine.
C16_ContainedStep ==
    \A c \in Channels : \A m \in inbox[c] :
        StepDispatches(c, m) =>
            LET ls == listeners[c][m.type] IN
            /\ Ops(trace', "throw") = <<>>
            /\ \A i \in 1..Len(ls) :
                Throws(ls[i]) =>
                    \A j \in (i + 1)..Len(ls) :
                        \E k \in 1..Len(Invoked(trace')) : Invoked(trace')[k] = j

C16_ListenerErrorsContained == [][C16_ContainedStep]_vars

\* A listener threw, the exception was logged, and a listener registered
\* after it was invoked for the same message.
C16_Witness ==
    \E k \in 1..Len(trace) : \E l \in (k + 1)..Len(trace) :
        /\ trace[k].op = "console.error"
        /\ trace[l].op = "invoke"
        /\ trace[l].arg[2] > trace[k].arg

\* on(type, cb) appends cb to the listeners of the type.
C17_OnStep ==
    \A c \in Channels :
        (status[c] = "open" /\ \E k \in 1..Len(trace') :
                                    trace'[k].op = "on" /\ trace'[k].channel = c) =>
            /\ Len(trace') = 1
            /\ trace'[1].channel = c
            /\ LET type == trace'[1].arg[1]
                   cb == trace'[1].arg[2]
               IN listeners' = [listeners EXCEPT ![c][type] = Append(@, cb)]

\* The dispatch invokes position 1, 2, ... of the listeners of the type.
C17_OrderStep ==
    \A c \in Channels : \A m \in inbox[c] :
        StepDispatches(c, m) =>
            Invoked(trace') = [k \in 1..Len(listeners[c][m.type]) |-> k]

\* C17: the listeners of a message's type are invoked in the order of
\* their registration, each registration once: a callback registered k
\* times is invoked k times for the message.
C17_RegistrationOrder == [][C17_OnStep /\ C17_OrderStep]_vars

\* A callback registered twice for a type was invoked twice for one message.
C17_Witness ==
    \E c \in Channels : \E type \in ListenerTypes :
        \E i \in 1..Len(listeners[c][type]) : \E j \in (i + 1)..Len(listeners[c][type]) :
            /\ listeners[c][type][i].kind = "listener"
            /\ listeners[c][type][i] = listeners[c][type][j]
            /\ Len(Dispatched(trace, c)) = 1
            /\ Dispatched(trace, c)[1].arg.type = type
            /\ Invoked(trace) = [k \in 1..Len(listeners[c][type]) |-> k]

\* C18: received data that is not an object, is null, has no string type
\* or has a missing or empty agentID is dropped: no listener is invoked, no
\* exception is thrown, and the listeners and the pending table (and the
\* rest of the channel) are as before; the data is logged.
C18_MalformedStep ==
    \A c \in Channels : \A m \in inbox[c] \cap ForeignData :
        StepDelivers(c, m) =>
            /\ Len(trace') = 1
            /\ trace'[1].op = "console.warn"
            /\ trace'[1].channel = c
            /\ inbox' = [inbox EXCEPT ![c] = @ \ {m}]
            /\ UNCHANGED <<status, agentID, listeners, pendingRequests, timers,
                           promises, tasks, nextID>>

C18_MalformedDropped == [][C18_MalformedStep]_vars

\* An object with a type that has listeners and an empty agentID has just
\* been dropped by an open channel.
C18_Witness ==
    \E c \in Channels :
        /\ status[c] = "open"
        /\ Len(listeners[c][HelloType]) > 0
        /\ Len(trace) = 1
        /\ trace[1].op = "console.warn"
        /\ trace[1].channel = c
        /\ trace[1].arg = [jsType |-> "object", type |-> Str(HelloType), agentID |-> Str("")]

\* C19: close() on an open channel rejects the pending requests, then
\* posts exactly one goodbye of the channel, then releases the transport;
\* when it returns the listener registry is empty.
C19_CloseStep ==
    \A c \in Channels :
        StepCloses(c) =>
            LET n == Cardinality(DOMAIN pendingRequests[c]) IN
            /\ Len(trace') = n + 2
            /\ \A k \in 1..n : trace'[k].op = "reject"
            /\ {trace'[k].arg : k \in 1..n} = DOMAIN pendingRequests[c]
            /\ trace'[n + 1].op = "post"
            /\ trace'[n + 1].channel = c
            /\ trace'[n + 1].arg = GoodbyeMessage(<<c, nextID[c]>>, agentID[c])
            /\ \A d \in Channels \ {c} :
                status[d] = "open" => trace'[n + 1].arg \in inbox'[d]
            /\ trace'[n + 2].op = "close"
            /\ trace'[n + 2].channel = c
            /\ \A t \in MsgTypes : listeners'[c][t] = <<>>

C19_GoodbyeOnClose == [][C19_CloseStep]_vars

\* A channel has just closed with a request pending: the rejection, the
\* goodbye, the release.
C19_Witness ==
    \E c \in Channels :
        /\ status[c] = "closed"
        /\ Len(trace) >= 3
        /\ trace[1].op = "reject"
        /\ trace[Len(trace)].op = "close"
        /\ Len(Posts(trace, GoodbyeType)) = 1

\* C20: sendMsg of a value that is not an instance of the message model
\* throws and hands nothing to the transport: what a channel hands to the
\* transport is an instance, and what is queued is an instance or came
\* from a script's own BroadcastChannel.
C20_OnlyInstancesPosted ==
    /\ \A k \in 1..Len(trace) :
        trace[k].op = "post" => InstanceOfBaseMessage(trace[k].arg)
    /\ (\E k \in 1..Len(trace) : trace[k].op = "throw") => Ops(trace, "post") = <<>>
    /\ \A c \in Channels : \A m \in inbox[c] :
        InstanceOfBaseMessage(m) \/ m \in ForeignData

\* sendMsg has just thrown for an object literal.
C20_Witness ==
    /\ nSends = 1
    /\ Len(trace) = 1
    /\ trace[1].op = "throw"
    /\ trace[1].arg = TypeError.name
    /\ \A c \in Channels : \A m \in inbox[c] : InstanceOfBaseMessage(m)

\* C21: off(type, cb) removes cb from the listeners of that type and leaves
\* every other listener of the type, in the same relative order, and every
\* listener of the other types as they were; for a type without listeners or
\* a callback never registered it changes nothing; it does not throw.
RECURSIVE Without(_, _)
Without(seq, x) ==
    IF seq = <<>> THEN <<>>
    ELSE IF Head(seq) = x THEN Without(Tail(seq), x)
         ELSE <<Head(seq)>> \o Without(Tail(seq), x)

Registered(seq, x) == \E i \in 1..Len(seq) : seq[i] = x

C21_OffStep ==
    \A c \in Channels :
        (\E k \in 1..Len(trace') : trace'[k].op = "off" /\ trace'[k].channel = c) =>
            /\ Len(trace') = 1
            /\ LET type == trace'[1].arg[1]
                   cb == trace'[1].arg[2]
               IN /\ ~Registered(listeners'[c][type], cb)
                  /\ listeners'[c][type] = Without(listeners[c][type], cb)
                  /\ ~Registered(listeners[c][type], cb) => listeners' = listeners
                  /\ \A t \in MsgTypes \ {type} : listeners'[c][t] = listeners[c][t]
                  /\ \A d \in Instances \ {c} : listeners'[d] = listeners[d]
            /\ UNCHANGED <<status, agentID, pendingRequests, timers, promises,
                           inbox, tasks, nextID>>

C21_OffRemovesOne == [][C21_OffStep]_vars

\* off() has just removed a callback of a type whose other listeners, the
\* handshake handler first, are still registered in their order.
C21_Witness ==
    \E c \in Channels :
        /\ Len(trace) = 1
        /\ trace[1].op = "off"
        /\ trace[1].channel = c
        /\ trace[1].arg = <<HelloType, Callback("listener", "", "f")>>
        /\ listeners[c][HelloType] =
              <<handleHandshakeCb, Callback("listener", "", "throws")>>

\* C22: a direct message runs listeners on the one instance its sender
\* addressed: no two distinct instances both dispatch the same direct
\* message, whatever agent names they were constructed with.
C22_OneRecipient ==
    \A p \in heard : \A q \in heard : p[1] = q[1] => p[2] = q[2]

\* C23: every message a channel posts, of every kind, carries metadata that
\* is an object and never null.
C23_MetadataIsObject ==
    \A k \in 1..Len(trace) :
        trace[k].op = "post" => trace[k].arg.metadata # <<>>

\* The call a step is, when it is a call of a public method.
StepCalls(tr, method) ==
    /\ Len(tr) > 0
    /\ tr[1].op = "call"
    /\ tr[1].arg[1] = method

\* C24: every message a channel operation posts has a non-empty string type
\* and a non-empty agentID, so no peer drops a message a channel produced as
\* malformed; a construction that cannot meet this fails before anything is
\* posted.
C24_PostStep ==
    /\ \A k \in 1..Len(trace') :
          trace'[k].op = "post" =>
              /\ InstanceOfBaseMessage(trace'[k].arg)
              /\ trace'[k].arg.type # ""
              /\ trace'[k].arg.agentID # ""
              /\ ~Malformed(trace'[k].arg)
    /\ (/\ StepCalls(trace', "new BaseMessage")
        /\ (trace'[1].arg[2][1] = "" \/ trace'[1].arg[2][2] = "")) =>
            /\ Ops(trace', "post") = <<>>
            /\ Ops(trace', "throw") # <<>>
            /\ inbox' = inbox
    /\ \A c \in Channels : \A m \in inbox[c] :
          (StepDelivers(c, m) /\ InstanceOfBaseMessage(m)) =>
              Ops(trace', "console.warn") = <<>>

C24_PostedWellFormed == [][C24_PostStep]_vars

\* A message constructed with an empty agent was refused: the constructor
\* threw and nothing reached the transport.
C24_Witness ==
    /\ StepCalls(trace, "new BaseMessage")
    /\ trace[1].arg[2][1] = ""
    /\ trace[1].arg[2][2] # ""
    /\ Ops(trace, "post") = <<>>
    /\ Ops(trace, "throw") # <<>>

\* C25: every ResponseMessage constructed for a received request, one whose
\* metadata already has a requestMsgID key included, has its top-level
\* requestMsgID and its metadata.requestMsgID both equal to the request's
\* msgID.
C25_LinkStep ==
    \A task \in tasks :
        task \notin tasks' =>
            LET R == task.message
                sent == Posts(trace', ResponseType)
            IN \A i \in 1..Len(sent) :
                /\ sent[i].arg.requestMsgID = R.msgID
                /\ sent[i].arg.metadata[1].requestMsgID = R.msgID

C25_ResponseLinksRequest == [][C25_LinkStep]_vars

\* C26: constructing a log or error message draws exactly one ID, and the
\* msgID rendered in the prefix of its text is the message's own msgID.
C26_DrawStep ==
    \A c \in Channels :
        (/\ StepCalls(trace', "log") \/ StepCalls(trace', "error")
         /\ trace'[1].channel = c
         /\ Ops(trace', "post") # <<>>) =>
            LET m == Ops(trace', "post")[1].arg
            IN /\ nextID'[c] = nextID[c] + 1
               /\ m.payload[1].prefixMsgID = m.msgID

C26_OneIDPerLogMessage == [][C26_DrawStep]_vars

\* The callbacks a step invoked on channel c.
InvokedCallbacks(tr, c) ==
    {listeners[c][tr[k].arg[1]][tr[k].arg[2]] :
        k \in {j \in 1..Len(tr) : tr[j].op = "invoke" /\ tr[j].channel = c}}

\* C27: a callback registered through a listener method of OPFSNotifier
\* (onFileCreated ... onEntryMoved, or onAnyChange) on one instance is
\* invoked when another instance calls the paired emitter.
C27_EmissionStep ==
    \A c \in Channels : \A m \in inbox[c] :
        (/\ StepDispatches(c, m)
         /\ m.type = EventType
         /\ m.payload[1].name \in FsEvents) =>
            \A i \in 1..Len(listeners[c][m.payload[1].name]) :
                listeners[c][m.payload[1].name][i] \in InvokedCallbacks(trace', c)

C27_PairedListenerInvoked == [][C27_EmissionStep]_vars

\* C28: constructing a GreetingMessage with a missing, null or empty toAgent
\* fails, so every GreetingMessage that reaches the transport has a
\* non-empty toAgent.
C28_GreetingStep ==
    /\ \A k \in 1..Len(trace') :
          (/\ trace'[k].op = "post"
           /\ InstanceOfBaseMessage(trace'[k].arg)
           /\ trace'[k].arg.type = GreetingType) => trace'[k].arg.toAgent # NoAgent
    /\ (StepCalls(trace', "greeting") /\ trace'[1].arg[2] = NoAgent) =>
            /\ Ops(trace', "post") = <<>>
            /\ Ops(trace', "throw") # <<>>
            /\ UNCHANGED <<inbox, nextID>>

C28_GreetingsAddressed == [][C28_GreetingStep]_vars

\* greeting() was called without a recipient: the constructor threw and
\* nothing was posted.
C28_Witness ==
    /\ StepCalls(trace, "greeting")
    /\ trace[1].arg[2] = NoAgent
    /\ status[trace[1].channel] = "open"
    /\ Ops(trace, "post") = <<>>
    /\ Ops(trace, "throw") # <<>>

\* C29: any two messages constructed by senders sharing the transport have
\* distinct msgIDs, so no two pending requests share a key: every message a
\* step posts carries an ID its context drew in that step, which no queued
\* message and no request made before carries, and no two pending tables
\* have a key in common.
C29_FreshStep ==
    \A k \in 1..Len(trace') :
        trace'[k].op = "post" =>
            LET m == trace'[k].arg
                c == trace'[k].channel
            IN /\ m.msgID[1] = c
               /\ nextID[c] <= m.msgID[2]
               /\ m.msgID[2] < nextID'[c]
               /\ \A j \in 1..Len(trace') :
                    (j # k /\ trace'[j].op = "post") => trace'[j].arg.msgID # m.msgID
               /\ \A d \in Channels : \A x \in inbox[d] : x.msgID # m.msgID
               /\ m.msgID \notin DOMAIN promises

C29_OneMessagePerID ==
    /\ \A c \in Channels : \A d \in Channels : \A x \in inbox[c] : \A y \in inbox[d] :
          x.msgID = y.msgID => x = y
    /\ \A c \in Channels : \A d \in Channels \ {c} :
          (DOMAIN pendingRequests[c]) \cap (DOMAIN pendingRequests[d]) = {}
    /\ \A c \in Channels : \A id \in DOMAIN pendingRequests[c] : id[1] = c

C30_TimerIffPending ==
    \A id \in timers \cup UNION {DOMAIN pendingRequests[c] : c \in Channels} :
        id \in timers <=> \E c \in Channels : id \in DOMAIN pendingRequests[c]

\* One request is pending with its timer armed while another, already
\* answered, has neither an entry nor a timer.
C30_Witness ==
    \E id1 \in DOMAIN promises : \E id2 \in DOMAIN promises :
        /\ id1 \in timers
        /\ id1 \in DOMAIN pendingRequests[Owner(id1)]
        /\ Resolved(id2)
        /\ id2 \notin timers
        /\ \A c \in Channels : id2 \notin DOMAIN pendingRequests[c]

\* ------------------------------------------------- several responders

\* Three contexts share the channel name; any of them registers onRequest
\* handlers, up to MaxResponders in all, so that one request is answered
\* more than once, by one channel or by two.
MaxResponders == 2

\* The transport delivers what is queued on any instance until nothing is
\* left.
RECURSIVE QuiesceAll(_)
QuiesceAll(g) ==
    IF \A c \in Instances : g.inbox[c] = {} THEN g
    ELSE LET c == CHOOSE d \in Instances : g.inbox[d] # {}
             m == CHOOSE x \in g.inbox[c] : TRUE
         IN QuiesceAll(messageRouter([g EXCEPT !.inbox[c] = @ \ {m}], c, m))

\* The third context has constructed its channel as well and the handshake
\* is over.
RaceInitState ==
    LET g == QuiesceAll(Constructor(ConstructAll(Blank, 1), NumChannels + 1,
                                    AgentNameOf(NumChannels + 1)))
    IN [g EXCEPT !.trace = <<>>, !.heard = {}]

RaceInit ==
    /\ LET g == RaceInitState
       IN /\ status = g.status
          /\ agentID = g.agentID
          /\ listeners = g.listeners
          /\ pendingRequests = g.pendingRequests
          /\ timers = g.timers
          /\ promises = g.promises
          /\ inbox = g.inbox
          /\ tasks = g.tasks
          /\ nextID = g.nextID
    /\ nRequests = 0
    /\ nSends = 0
    /\ trace = <<>>
    /\ heard = {}
    /\ clock = NoClock
    /\ file = NewFile

RaceOnRequest(c, requestType, body) ==
    /\ status[c] = "open"
    /\ SumLen(listeners, Instances) < MaxResponders
    /\ Observe(onRequest(State, c, requestType, body))
    /\ UNCHANGED <<nRequests, nSends>>

RaceNext ==
    \/ \E c \in Instances, type \in RequestTypes, p \in Payloads :
          ObsRequest(c, type, <<p>>, NoAgent)
    \/ \E c \in Instances, type \in RequestTypes, body \in HandlerBodies :
          RaceOnRequest(c, type, body)
    \/ \E c \in Instances : \E message \in inbox[c] : ObsDeliver(c, message)
    \/ \E task \in tasks : ObsHandlerFinish(task)

RaceSpec == RaceInit /\ [][RaceNext]_vars

\* This step dispatches, on the requester, a reply to one of its requests.
ReplyDispatched(c, m) ==
    /\ StepDelivers(c, m)
    /\ PassesFilter(c, m)
    /\ m.type \in ReplyTypes
    /\ MetadataRequestMsgID(m) # <<>>
    /\ MetadataRequestMsgID(m)[1] \in DOMAIN promises
    /\ Owner(MetadataRequestMsgID(m)[1]) = c

\* C31: when several onRequest registrations, on one channel or on several,
\* answer the same request, the reply dispatched while the request is still
\* pending settles the requester's promise with its own payload, and every
\* reply for that request dispatched later settles nothing and leaves the
\* requester's promises, pending table, timers, listeners and counters as
\* they were.
C31_ReplyStep ==
    \A c \in Instances : \A m \in inbox[c] :
        ReplyDispatched(c, m) =>
            LET rid == MetadataRequestMsgID(m)[1] IN
            IF rid \in DOMAIN pendingRequests[c]
            THEN /\ Sent(rid)
                 /\ promises'[rid].settles = 1
                 /\ IF m.type = ErrorType
                    THEN promises'[rid].state = "rejected"
                    ELSE /\ promises'[rid].state = "fulfilled"
                         /\ promises'[rid].value = m.payload
                 /\ Ops(trace', "resolve") \o Ops(trace', "reject") =
                        <<Event(IF m.type = ErrorType THEN "reject" ELSE "resolve", c, rid)>>
            ELSE /\ promises' = promises
                 /\ pendingRequests' = pendingRequests
                 /\ timers' = timers
                 /\ listeners' = listeners
                 /\ nextID' = nextID
                 /\ tasks' = tasks
                 /\ Ops(trace', "resolve") = <<>>
                 /\ Ops(trace', "reject") = <<>>
                 /\ Ops(trace', "post") = <<>>

C31_FirstReplySettles == [][C31_ReplyStep]_vars

\* Two replies to one request came from two registrations; the second has
\* just been dispatched on the requester, whose promise the first one
\* resolved, and the step settled nothing.
C31_Witness ==
    \E c \in Instances : \E id \in DOMAIN promises :
        /\ Owner(id) = c
        /\ Resolved(id)
        /\ promises[id].settles = 1
        /\ id \notin DOMAIN pendingRequests[c]
        /\ Len(Dispatched(trace, c)) = 1
        /\ Dispatched(trace, c)[1].arg.type = ResponseType
        /\ MetadataRequestMsgID(Dispatched(trace, c)[1].arg) = <<id>>
        /\ Ops(trace, "resolve") = <<>>

\* The two replies came from two different channels.
C31_WitnessTwoChannels ==
    \E c \in Instances : \E id \in DOMAIN promises :
        /\ Owner(id) = c
        /\ Resolved(id)
        /\ Len(Dispatched(trace, c)) = 1
        /\ Dispatched(trace, c)[1].arg.type = ResponseType
        /\ MetadataRequestMsgID(Dispatched(trace, c)[1].arg) = <<id>>
        /\ Ops(trace, "resolve") = <<>>
        /\ nRequests = 1
        /\ tasks = {}
        /\ inbox[c] = {}
        /\ \A d \in Instances \ {c} :
              /\ Len(listeners[d][RequestType]) = 1
              /\ nextID[d] = RaceInitState.nextID[d] + 1

\* The step in which request() posts its message: the message is queued
\* at the peers, nothing is dispatched anywhere, and when the step ends the
\* entry of the request is in the requester's table with its timer armed.
C32_PostStep ==
    \A k \in 1..Len(Posts(trace', RequestType)) :
        LET e == Posts(trace', RequestType)[k] IN
        /\ Ops(trace', "dispatch") = <<>>
        /\ e.arg.msgID \in DOMAIN pendingRequests'[e.channel]
        /\ e.arg.msgID \in timers'
        /\ \A d \in Instances : e.arg \notin inbox[d]

\* A reply dispatched on the requester while the promise of its request is
\* unsettled finds the entry and settles the promise.
C32_MatchStep ==
    \A c \in Instances : \A m \in inbox[c] :
        (ReplyDispatched(c, m) /\ Sent(MetadataRequestMsgID(m)[1])) =>
            /\ MetadataRequestMsgID(m)[1] \in DOMAIN pendingRequests[c]
            /\ ~Sent(MetadataRequestMsgID(m)[1])'

\* C32: request() posts the request message before it inserts the pending
\* entry, yet the entry is in the table when the call returns and before
\* any message is dispatched, so no reply to a request whose promise is
\* unsettled is dropped as unmatched.
C32_NoEarlyReply == [][C32_PostStep /\ C32_MatchStep]_vars

\* The first reply to a request has just been dispatched on the requester:
\* it found the entry and resolved the promise.
C32_Witness ==
    \E c \in Instances : \E id \in DOMAIN promises :
        /\ Owner(id) = c
        /\ Len(Dispatched(trace, c)) = 1
        /\ Dispatched(trace, c)[1].arg.type = ResponseType
        /\ MetadataRequestMsgID(Dispatched(trace, c)[1].arg) = <<id>>
        /\ Ops(trace, "resolve") = <<Event("resolve", c, id)>>
        /\ id \notin DOMAIN pendingRequests[c]

\* ------------------------------------------------------ calls after close

\* request(type, payload, toAgent) called on a channel object in whatever
\* state: on a closed one the RequestMessage is constructed and postMessage
\* throws out of sendMsg and out of request() before the Promise is created.
requestCall(g, c, type, payload, toAgent) ==
    IF CanPost(g, c) THEN request(g, c, type, payload, toAgent)
    ELSE Throw(DrawID(g, c), InvalidStateError)

CallRequest(c, type, payload, toAgent) ==
    /\ status[c] # "none"
    /\ nRequests < MaxRequests
    /\ nRequests' = nRequests + 1
    /\ Observe(Record(requestCall(State, c, type, payload, toAgent),
                      "call", c, <<"request", type>>))
    /\ UNCHANGED nSends

ObsTimerFire(handle) ==
    /\ handle \in timers
    /\ Observe(timerCallback([State EXCEPT !.timers = @ \ {handle}], handle))
    /\ UNCHANGED <<nRequests, nSends>>

\* Requests are issued on open and on closed channels; handlers answer,
\* timers expire and channels close in any order.
AfterCloseNext ==
    \/ \E c \in Channels, type \in RequestTypes, p \in Payloads :
          CallRequest(c, type, <<p>>, NoAgent)
    \/ \E c \in Channels, type \in RequestTypes, body \in HandlerBodies :
          ObsOnRequest(c, type, body)
    \/ \E c \in Channels : \E message \in inbox[c] : ObsDeliver(c, message)
    \/ \E task \in tasks : ObsHandlerFinish(task)
    \/ \E handle \in timers : ObsTimerFire(handle)
    \/ \E c \in Channels : ObsClose(c)

AfterCloseSpec == Init /\ [][AfterCloseNext]_vars

\* The step is a request() call on channel c.
StepRequests(c) ==
    /\ \E k \in 1..Len(trace') :
          /\ trace'[k].op = "call"
          /\ trace'[k].channel = c
          /\ trace'[k].arg[1] = "request"

\* request() called on a closed channel throws the transport's error and
\* leaves every table, timer, promise and queue as it was.
C33_RequestStep ==
    \A c \in Channels :
        (StepRequests(c) /\ status[c] = "closed") =>
            /\ Ops(trace', "throw") = <<Event("throw", 0, "InvalidStateError")>>
            /\ Ops(trace', "post") = <<>>
            /\ pendingRequests' = pendingRequests
            /\ timers' = timers
            /\ promises' = promises
            /\ inbox' = inbox

\* A closed channel stays closed, with an empty pending table and no timer
\* of its own armed.
C33_ClosedStep ==
    \A c \in Channels :
        status[c] = "closed" =>
            /\ status'[c] = "closed"
            /\ pendingRequests'[c] = EmptyObject
            /\ \A id \in timers' : promises'[id].owner # c

\* C33: once close() has completed on an AsyncChannel its pending table is
\* empty and no timer of the channel is armed in every later state; a
\* request() call made after the close fails when it posts the message,
\* inserts no entry and arms no timer.
C33_NothingAfterClose == [][C33_RequestStep /\ C33_ClosedStep]_vars

\* request() has just been called on a closed channel and has thrown.
C33_Witness ==
    \E c \in Channels :
        /\ status[c] = "closed"
        /\ Len(trace) = 2
        /\ trace[1].op = "call"
        /\ trace[1].channel = c
        /\ trace[1].arg[1] = "request"
        /\ trace[2].op = "throw"
        /\ pendingRequests[c] = EmptyObject
        /\ OwnedBy(c) # {}

\* ------------------------------------------------- re-entrant listeners

\* Listeners of the application on the generic request type that return,
\* register a listener, remove one, or close the channel that invoked them.
ReentrantBodies == {"f", "on", "off", "close"}

\* Requests are issued and served while the application's listeners on the
\* request type call back into the channel.
ReentrantNext ==
    \/ \E c \in Channels, type \in RequestTypes, p \in Payloads :
          ObsRequest(c, type, <<p>>, NoAgent)
    \/ \E c \in Channels, type \in RequestTypes, body \in HandlerBodies :
          ObsOnRequest(c, type, body)
    \/ \E c \in Channels, body \in ReentrantBodies : On(c, RequestType, body)
    \/ \E c \in Channels : \E message \in inbox[c] : ObsDeliver(c, message)
    \/ \E task \in tasks : ObsHandlerFinish(task)
    \/ \E c \in Channels : ObsClose(c)

ReentrantSpec == Init /\ [][ReentrantNext]_vars

\* What channel c did in a step from position k of the record on: the
\* listeners it invoked and the messages it handed to the transport.
ActsFrom(tr, c, k) ==
    {j \in k..Len(tr) : tr[j].channel = c /\ tr[j].op \in {"invoke", "post"}}

\* C34: after close() has been called on a channel none of its listeners is
\* invoked and the channel posts nothing: a channel closed before the step
\* does neither in the step, and in the step in which close() is called,
\* by the application or by a listener during a dispatch, the channel does
\* neither after the call.
C34_ClosedStep ==
    \A c \in Channels :
        /\ status[c] = "closed" => ActsFrom(trace', c, 1) = {}
        /\ \A k \in 1..Len(trace') :
              (trace'[k].op = "close" /\ trace'[k].channel = c) =>
                  ActsFrom(trace', c, k + 1) = {}

C34_SilentAfterClose == [][C34_ClosedStep]_vars

\* A listener closed the channel during a dispatch and a listener
\* registered after it was invoked for the same message.
C34_InvokedAfterClose ==
    \E c \in Channels : \E k \in 1..Len(trace) :
        /\ status[c] = "closed"
        /\ Len(Dispatched(trace, c)) = 1
        /\ trace[k].op = "close"
        /\ trace[k].channel = c
        /\ \E j \in (k + 1)..Len(trace) : trace[j].op = "invoke" /\ trace[j].channel = c

\* The listener positions channel c invoked in a step, in order.
InvokedOn(tr, c) ==
    LET es == SelectSeq(tr, LAMBDA e : e.op = "invoke" /\ e.channel = c)
    IN [k \in 1..Len(es) |-> es[k].arg[2]]

\* C35: the listeners invoked for a dispatched message are exactly those
\* registered for its type at the moment its dispatch begins, in their
\* order: what a listener registers or removes during the dispatch changes
\* nothing for that message.
C35_DispatchStep ==
    \A c \in Channels :
        Len(Dispatched(trace', c)) = 1 =>
            InvokedOn(trace', c) =
                [i \in 1..Len(listeners[c][Dispatched(trace', c)[1].arg.type]) |-> i]

C35_SnapshotAtDispatch == [][C35_DispatchStep]_vars

\* A listener called on() for the type under dispatch and the callback it
\* registered was invoked for the same message.
C35_InvokedSameDispatch ==
    \E c \in Channels :
        /\ Len(Dispatched(trace, c)) = 1
        /\ Ops(trace, "on") # <<>>
        /\ Ops(trace, "close") = <<>>
        /\ Len(InvokedOn(trace, c)) = Len(listeners[c][Dispatched(trace, c)[1].arg.type])

\* ------------------------------------------------------ handshake traffic

\* new AsyncChannel(channelName, agentName) in any of the contexts.
ConstructInstance(c) ==
    /\ status[c] = "none"
    /\ Observe(Constructor(State, c, AgentNameOf(c)))
    /\ UNCHANGED <<nRequests, nSends>>

\* Every context constructs its channel at some time and may close it; the
\* application registers nothing and sends nothing, so every message is one
\* the library posts by itself.  The event loop runs every queued message
\* task.
TrafficNext ==
    \/ \E c \in Instances : ConstructInstance(c)
    \/ \E c \in Instances : \E message \in inbox[c] : ObsDeliver(c, message)
    \/ \E c \in Instances : ObsClose(c)

TrafficSpec ==
    /\ DispatchInit
    /\ [][TrafficNext]_vars
    /\ WF_vars(\E c \in Instances : \E message \in inbox[c] : ObsDeliver(c, message))

\* The channel objects open on the name.
OpenInstances == {c \in Instances : status[c] = "open"}

\* The greetings channel c has posted: the IDs it drew but for those of its
\* hello and of its goodbye.
GreetingsPosted(c) ==
    nextID[c] - 1 - (IF status[c] = "none" THEN 0 ELSE 1)
                  - (IF status[c] = "closed" THEN 1 ELSE 0)

\* The delivery of a message: a hello makes the channel post one greeting
\* addressed to the sender and nothing else; a greeting, a goodbye or any
\* other message makes it post nothing.
C36_DeliveryStep ==
    \A c \in Instances : \A m \in inbox[c] :
        StepDelivers(c, m) =>
            IF m.type = HelloType /\ PassesFilter(c, m)
            THEN /\ Len(Ops(trace', "post")) = 1
                 /\ Ops(trace', "post")[1].channel = c
                 /\ Ops(trace', "post")[1].arg.type = GreetingType
                 /\ Ops(trace', "post")[1].arg.toAgent = m.agentID
            ELSE Ops(trace', "post") = <<>>

\* A hello is queued once for each of the other channels open when it is
\* posted: for at most N-1 of N open channels.
C36_HelloStep ==
    \A k \in 1..Len(Posts(trace', HelloType)) :
        LET e == Posts(trace', HelloType)[k] IN
        /\ {d \in Instances : e.arg \in inbox'[d]} = OpenInstances \ {e.channel}
        /\ Cardinality({d \in Instances : e.arg \in inbox'[d]}) <= Cardinality(OpenInstances')  - 1

\* No channel has greeted more often than hellos of other channels exist.
C36_Bounded ==
    \A c \in Instances :
        GreetingsPosted(c) <= Cardinality({d \in Instances \ {c} : status[d] # "none"})

\* Nothing is queued anywhere.
Quiescent == \A c \in Instances : inbox[c] = {}

\* C36: a channel posts by itself one greeting for each hello delivered to
\* it and nothing in reaction to a greeting or a goodbye, so one hello on N
\* open channels is followed by at most N-1 automatic messages, and the
\* traffic dies out: from some state on nothing is queued any more.
C36_TrafficBounded ==
    /\ [][C36_DeliveryStep /\ C36_HelloStep]_vars
    /\ []C36_Bounded
    /\ <>[]Quiescent

\* Three channels are open, the last one's hello has been answered by both
\* of the others and both greetings have been taken: N-1 automatic
\* messages, and nothing is queued.
C36_Witness ==
    /\ OpenInstances = Instances
    /\ Quiescent
    /\ \E c \in Instances :
          /\ GreetingsPosted(c) = 0
          /\ \A d \in Instances \ {c} : GreetingsPosted(d) >= 1
          /\ Len(Dispatched(trace, c)) = 1
          /\ Dispatched(trace, c)[1].arg.type = GreetingType

\* ------------------------------------------------------ file requests

\* AsyncChannel.DEFAULT_TIMEOUT, in milliseconds.
DEFAULT_TIMEOUT == 10000

\* Time passes in steps of TickMs, MaxTicks times.
TickMs == 5000
MaxTicks == 3

\* ToNumber of the value passed as a delay, <<>> for NaN: a number is
\* itself; an array is the number its string form reads as, that is 0 for
\* [], the element for [number], and NaN for an array holding an object.
ToNumber(x) ==
    CASE x.t = "number" -> <<x.v>>
      [] x.t = "array" ->
            IF Len(x.v) = 0 THEN <<0>>
            ELSE IF Len(x.v) = 1 /\ x.v[1].t = "number" THEN <<x.v[1].v>>
            ELSE <<>>
      [] OTHER -> <<>>

\* setTimeout(callback, timeout): the delay the timer is armed with; NaN and
\* negative delays are 0.
TimerDelay(timeout) ==
    LET n == ToNumber(timeout)
    IN IF n = <<>> THEN 0 ELSE IF n[1] < 0 THEN 0 ELSE n[1]

\* request(type, payload, toAgent, timeout): as request(), with the timer
\* armed now and due after the delay setTimeout makes of `timeout`.
requestWithin(g, c, type, payload, toAgent, timeout) ==
    LET requestMsgID == pushID(g, c)
        g1 == request(g, c, type, payload, toAgent)
    IN [g1 EXCEPT
          !.clock.armed = [k \in (DOMAIN @) \cup {requestMsgID} |->
                             IF k = requestMsgID THEN g.clock.now ELSE @[k]],
          !.clock.due = [k \in (DOMAIN @) \cup {requestMsgID} |->
                             IF k = requestMsgID THEN g.clock.now + TimerDelay(timeout)
                             ELSE @[k]]]

DataTypeError ==
    [name |-> "TypeError", message |-> "Data must be an ArrayBuffer or Uint8Array.",
     stack |-> "at requestWrite"]

FilePathError ==
    [name |-> "Error", message |-> "File path is required for read request.",
     stack |-> "at requestRead"]

\* MainOPFSChannel.requestRead(filePath): request('opfs_read_file',
\* {filePath}), the timeout left to its default.
requestRead(g, c, filePath) ==
    IF filePath = "" THEN Throw(g, FilePathError)
    ELSE requestWithin(g, c, "opfs_read_file", <<[filePath |-> filePath]>>, NoAgent,
                       Num(DEFAULT_TIMEOUT))

\* MainOPFSChannel.requestWrite(filePath, data, position):
\* request('opfs_write_file', {filePath, position, buffer}, null, [buffer]).
requestWrite(g, c, filePath, data, position) ==
    IF data.t \notin {"ArrayBuffer", "Uint8Array"} THEN Throw(g, DataTypeError)
    ELSE LET buffer == ArrayBuffer(data.v)
         IN requestWithin(g, c, "opfs_write_file",
                          <<[filePath |-> filePath, position |-> position,
                             buffer |-> buffer]>>,
                          NoAgent, ArrayOf(<<buffer>>))

\* WorkerOPFSChannel._setupHandlers(): five onRequest registrations.
setupHandlers(g, c) ==
    onRequest(onRequest(onRequest(onRequest(onRequest(g,
        c, "opfs_read_file", "read"),
        c, "opfs_write_file", "write"),
        c, "opfs_delete_entry", "delete"),
        c, "opfs_copy_dir", "copy"),
        c, "opfs_move_dir", "move")

\* The main thread's MainOPFSChannel and the worker's WorkerOPFSChannel.
MainContext == 1
WorkerContext == 2

\* new MainOPFSChannel() on the main thread and new WorkerOPFSChannel() in
\* the worker, both with the default agent name; the handshake is over.
OPFSInitState ==
    LET g1 == Constructor(Blank, MainContext,
                          generateAgentID("main", "", "", MainContext))
        g2 == setupHandlers(Constructor(g1, WorkerContext,
                                generateAgentID("worker", "", "", WorkerContext)),
                            WorkerContext)
        g == Quiesce(g2)
    IN [g EXCEPT !.trace = <<>>, !.heard = {}]

OPFSInit ==
    /\ LET g == OPFSInitState
       IN /\ status = g.status
          /\ agentID = g.agentID
          /\ listeners = g.listeners
          /\ pendingRequests = g.pendingRequests
          /\ timers = g.timers
          /\ promises = g.promises
          /\ inbox = g.inbox
          /\ tasks = g.tasks
          /\ nextID = g.nextID
    /\ nRequests = 0
    /\ nSends = 0
    /\ trace = <<>>
    /\ heard = {}
    /\ clock = NoClock
    /\ file = NewFile

FilePaths == {"/data/a.bin"}
WriteData == {ArrayBuffer(1), Uint8Array(1), Num(1)}

RequestWrite(filePath, data) ==
    /\ nRequests < MaxRequests
    /\ nRequests' = nRequests + 1
    /\ Observe(Record(requestWrite(State, MainContext, filePath, data, 0),
                      "call", MainContext, <<"requestWrite", filePath>>))
    /\ UNCHANGED nSends

RequestRead(filePath) ==
    /\ nRequests < MaxRequests
    /\ nRequests' = nRequests + 1
    /\ Observe(Record(requestRead(State, MainContext, filePath),
                      "call", MainContext, <<"requestRead", filePath>>))
    /\ UNCHANGED nSends

\* TickMs milliseconds pass.
Tick ==
    /\ clock.now < MaxTicks * TickMs
    /\ Observe([State EXCEPT !.clock.now = @ + TickMs])
    /\ UNCHANGED <<nRequests, nSends>>

\* The timer of a request runs its callback, at its due time or later.
TimerExpires(handle) ==
    /\ handle \in timers
    /\ clock.now >= clock.due[handle]
    /\ Observe(timerCallback([State EXCEPT !.timers = @ \ {handle}], handle))
    /\ UNCHANGED <<nRequests, nSends>>

\* The main thread requests reads and writes, the worker's handlers answer
\* them, time passes and due timers expire.
OPFSNext ==
    \/ \E filePath \in FilePaths, data \in WriteData : RequestWrite(filePath, data)
    \/ \E filePath \in FilePaths \cup {""} : RequestRead(filePath)
    \/ \E c \in Channels : \E message \in inbox[c] : ObsDeliver(c, message)
    \/ \E task \in tasks : ObsHandlerFinish(task)
    \/ \E handle \in timers : TimerExpires(handle)
    \/ Tick

OPFSSpec == OPFSInit /\ [][OPFSNext]_vars

\* The request's timer was armed less than DEFAULT_TIMEOUT ms ago.
InWindow(id) == clock.now < clock.armed[id] + DEFAULT_TIMEOUT

\* requestWrite arms the timer of its request with the default timeout.
C37_IssueStep ==
    \A k \in 1..Len(Posts(trace', RequestType)) :
        LET m == Posts(trace', RequestType)[k].arg IN
        MetadataRequestType(m) = <<"opfs_write_file">> =>
            clock'.due[m.msgID] = clock'.armed[m.msgID] + DEFAULT_TIMEOUT

\* The worker's answer to a write request, dispatched on the requester
\* within the window, resolves the promise with the worker's result.
C37_AnswerStep ==
    \A m \in inbox[MainContext] :
        (/\ ReplyDispatched(MainContext, m)
         /\ m.type = ResponseType
         /\ MetadataRequestType(m) = <<"opfs_write_file">>
         /\ InWindow(MetadataRequestMsgID(m)[1])) =>
            /\ promises'[MetadataRequestMsgID(m)[1]].state = "fulfilled"
            /\ promises'[MetadataRequestMsgID(m)[1]].value = m.payload

\* C37: requestWrite issues its request with the default timeout of 10000
\* ms, and when the worker's opfs_write_file handler answers within that
\* window the promise is resolved with the worker's result, not rejected
\* with RequestTimeout.
C37_WriteAnsweredInTime == [][C37_IssueStep /\ C37_AnswerStep]_vars

\* The same for requestRead, which leaves the timeout to its default.
C37_ReadStep ==
    /\ \A k \in 1..Len(Posts(trace', RequestType)) :
          LET m == Posts(trace', RequestType)[k].arg IN
          MetadataRequestType(m) = <<"opfs_read_file">> =>
              clock'.due[m.msgID] = clock'.armed[m.msgID] + DEFAULT_TIMEOUT
    /\ \A m \in inbox[MainContext] :
          (/\ ReplyDispatched(MainContext, m)
           /\ m.type = ResponseType
           /\ MetadataRequestType(m) = <<"opfs_read_file">>
           /\ InWindow(MetadataRequestMsgID(m)[1])) =>
              /\ promises'[MetadataRequestMsgID(m)[1]].state = "fulfilled"
              /\ promises'[MetadataRequestMsgID(m)[1]].value = m.payload

C37_ReadAnsweredInTime == [][C37_ReadStep]_vars

\* The worker's answer to a write request has just been dispatched on the
\* main thread in the instant the request was issued in, and found the
\* promise rejected with RequestTimeout.
C37_TimedOutInWindow ==
    \E id \in DOMAIN promises :
        /\ id \in DOMAIN clock.armed
        /\ clock.now = clock.armed[id]
        /\ RejectedTimeout(id)
        /\ Len(Dispatched(trace, MainContext)) = 1
        /\ Dispatched(trace, MainContext)[1].arg.type = ResponseType
        /\ MetadataRequestMsgID(Dispatched(trace, MainContext)[1].arg) = <<id>>
        /\ MetadataRequestType(Dispatched(trace, MainContext)[1].arg) = <<"opfs_write_file">>
        /\ Dispatched(trace, MainContext)[1].arg.payload = <<[success |-> TRUE]>>

\* ------------------------------------------------------- OPFSWorkerFile

\* One OPFSWorkerFile object in a worker.  file.fs is the entry at its path
\* (whether it exists, and a version that every change of the entry
\* raises); file.lock is the call holding the entry's open
\* FileSystemSyncAccessHandle (0: none), file.accessHandle the call whose
\* handle this._accessHandle refers to (0: null); file.cache is _cache; a
\* property value is the snapshot of file.fs it was computed from.  Each
\* call of an async method is an entry of file.ops that advances from one
\* await to the next.  _getHandlePromise() resolves when the entry exists
\* (or was created) and rejects otherwise.

\* The keys _clearCache() deletes.
CachedKeys == {"exists", "bytes", "bytesH", "sha256", "lastModified"}

\* _clearCache()
clearCache(f) ==
    [f EXCEPT !.cache = [k \in (DOMAIN @) \ CachedKeys |-> @[k]]]

\* this._cache.set(key, result)
cacheSet(f, key, result) ==
    [f EXCEPT !.cache = [k \in (DOMAIN @) \cup {key} |-> IF k = key THEN result ELSE @[k]]]

\* The entry changes: created, written, truncated or removed.
Changed(fs, exists) == [exists |-> exists, version |-> fs.version + 1]

\* get isLocked
isLocked(f) == f.accessHandle # 0

\* _getOrCache(key, generatorFn) up to its await: a cached value is
\* returned, otherwise the generator is started.
getOrCache(f, o, key) ==
    IF key \in DOMAIN f.cache
    THEN [f EXCEPT !.ops[o] = [kind |-> "read", pc |-> "done", key |-> key,
                               value |-> f.cache[key], wrote |-> 0]]
    ELSE [f EXCEPT !.ops[o] = [kind |-> "read", pc |-> "generating", key |-> key,
                               value |-> f.fs, wrote |-> 0]]

\* `await this.exists` inside another generator: the cached value, or the
\* entry looked up and the answer cached.
withExists(f) == IF "exists" \in DOMAIN f.cache THEN f ELSE cacheSet(f, "exists", f.fs)

\* get bytes: 0 for a file that `exists` says is absent, else getSize()
\* through a sync access handle, which fails while another handle is open.
bytesGenerator(f) ==
    LET f1 == withExists(f)
    IN IF ~f1.cache["exists"].exists THEN [ok |-> TRUE, f |-> f1, value |-> f1.cache["exists"]]
       ELSE IF f1.lock # 0 \/ ~f1.fs.exists THEN [ok |-> FALSE, f |-> f1, value |-> f1.fs]
       ELSE [ok |-> TRUE, f |-> f1, value |-> f1.fs]

\* The generator of a property up to the value it computes from the file
\* system; for sha256 that is the content read, still to be digested.
generator(f, key) ==
    CASE key = "exists" -> [ok |-> TRUE, f |-> f, value |-> f.fs]
      [] key = "bytes" -> bytesGenerator(f)
      [] key = "bytesH" ->
            IF "bytes" \in DOMAIN f.cache
            THEN [ok |-> TRUE, f |-> f, value |-> f.cache["bytes"]]
            ELSE LET r == bytesGenerator(f)
                 IN IF r.ok THEN [r EXCEPT !.f = cacheSet(r.f, "bytes", r.value)] ELSE r
      [] key = "sha256" ->
            LET f1 == withExists(f)
            IN IF ~f1.cache["exists"].exists \/ f1.lock # 0 \/ ~f1.fs.exists
               THEN [ok |-> FALSE, f |-> f1, value |-> f1.fs]
               ELSE [ok |-> TRUE, f |-> f1, value |-> f1.fs]
      [] key = "lastModified" ->
            IF f.fs.exists THEN [ok |-> TRUE, f |-> f, value |-> f.fs]
            ELSE [ok |-> FALSE, f |-> f, value |-> f.fs]

\* The generator of a property read runs: a failure rejects the read and
\* caches nothing for the key; sha256 goes on to calculateSHA256(buffer);
\* any other value is cached and returned.
generate(f, o) ==
    LET key == f.ops[o].key
        r == generator(f, key)
    IN IF ~r.ok THEN [r.f EXCEPT !.ops[o].pc = "failed"]
       ELSE IF key = "sha256"
       THEN [r.f EXCEPT !.ops[o].pc = "digesting", !.ops[o].value = r.value]
       ELSE [cacheSet(r.f, key, r.value) EXCEPT !.ops[o].pc = "done", !.ops[o].value = r.value]

\* calculateSHA256 has resolved: the hash is cached and returned.
digest(f, o) ==
    [cacheSet(f, "sha256", f.ops[o].value) EXCEPT !.ops[o].pc = "done"]

\* writeBytes(data, position) / allocate(size) up to
\* `await this._getHandlePromise(true)`.
modifyCall(f, o, kind) ==
    [f EXCEPT !.ops[o] = [kind |-> kind, pc |-> "opening", key |-> "",
                          value |-> f.fs, wrote |-> 0]]

\* _getHandlePromise(true) resolves: the entry exists, created if need be.
opened(f, o) ==
    [f EXCEPT !.fs = IF @.exists THEN @ ELSE Changed(@, TRUE),
              !.ops[o].pc = "writing"]

\* withSyncAccessHandle(handle, ...) and, when it succeeded, _clearCache():
\* the handle cannot be opened while another one is open or when the entry
\* is gone, and the method rejects before _clearCache().
written(f, o) ==
    IF f.lock # 0 \/ ~f.fs.exists THEN [f EXCEPT !.ops[o].pc = "failed"]
    ELSE LET fs == Changed(f.fs, TRUE)
         IN clearCache([f EXCEPT !.fs = fs, !.ops[o].pc = "done",
                                 !.ops[o].wrote = fs.version])

\* delete() up to `await parentDir.deleteFile(filename)`: _clearCache()
\* comes first.
deleteCall(f, o) ==
    clearCache([f EXCEPT !.ops[o] = [kind |-> "delete", pc |-> "deleting", key |-> "",
                                     value |-> f.fs, wrote |-> 0]])

\* parentDir.deleteFile(filename): the entry is removed; it rejects for an
\* entry that is absent or has an open access handle.
deleteFile(f, o) ==
    IF f.lock # 0 \/ ~f.fs.exists THEN [f EXCEPT !.ops[o].pc = "failed"]
    ELSE LET fs == Changed(f.fs, FALSE)
         IN [f EXCEPT !.fs = fs, !.ops[o].pc = "done", !.ops[o].wrote = fs.version]

\* The finally block of update(): this._accessHandle = null and
\* _clearCache(), whatever the outcome.
updateFinally(f, o, pc) ==
    clearCache([f EXCEPT !.accessHandle = 0, !.ops[o].pc = pc])

\* update(callback) up to `await this._getHandlePromise()`: the guard on
\* this._accessHandle throws before the try block.
updateCall(f, o) ==
    IF f.accessHandle # 0
    THEN [f EXCEPT !.ops[o] = [kind |-> "update", pc |-> "failed", key |-> "",
                               value |-> f.fs, wrote |-> 0]]
    ELSE [f EXCEPT !.ops[o] = [kind |-> "update", pc |-> "getHandle", key |-> "",
                               value |-> f.fs, wrote |-> 0]]

\* _getHandlePromise() settles: on, to createSyncAccessHandle(), or out
\* through the finally block.
updateGotHandle(f, o) ==
    IF f.fs.exists THEN [f EXCEPT !.ops[o].pc = "creating"]
    ELSE updateFinally(f, o, "failed")

\* createSyncAccessHandle() settles: the handle is stored and the callback
\* started, or, another handle being open, the call leaves through the
\* finally block.
updateCreated(f, o) ==
    IF f.lock # 0 \/ ~f.fs.exists THEN updateFinally(f, o, "failed")
    ELSE [f EXCEPT !.lock = o, !.accessHandle = o, !.ops[o].pc = "callback"]

\* The callback, which wrote through the handle, settles: the handle is
\* closed in the finally block.
updateCallbackDone(f, o) ==
    LET fs == Changed(f.fs, TRUE)
    IN updateFinally([f EXCEPT !.fs = fs, !.lock = 0, !.ops[o].wrote = fs.version],
                     o, "done")

\* A method or getter of the object is called.
FileKinds == {"read", "writeBytes", "allocate", "delete", "update"}

FileCall(o, kind, key) ==
    /\ file.ops[o].pc = "idle"
    /\ \A q \in FileOps : q < o => file.ops[q].pc # "idle"
    /\ Observe([State EXCEPT !.file =
          CASE kind = "read" -> getOrCache(@, o, key)
            [] kind \in {"writeBytes", "allocate"} -> modifyCall(@, o, kind)
            [] kind = "delete" -> deleteCall(@, o)
            [] kind = "update" -> updateCall(@, o)])
    /\ UNCHANGED <<nRequests, nSends>>

\* The promise a call awaits settles and the call runs to its next await.
FileResume(o) ==
    /\ file.ops[o].pc \notin {"idle", "done", "failed"}
    /\ Observe([State EXCEPT !.file =
          CASE @.ops[o].pc = "generating" -> generate(@, o)
            [] @.ops[o].pc = "digesting" -> digest(@, o)
            [] @.ops[o].pc = "opening" -> opened(@, o)
            [] @.ops[o].pc = "writing" -> written(@, o)
            [] @.ops[o].pc = "deleting" -> deleteFile(@, o)
            [] @.ops[o].pc = "getHandle" -> updateGotHandle(@, o)
            [] @.ops[o].pc = "creating" -> updateCreated(@, o)
            [] @.ops[o].pc = "callback" -> updateCallbackDone(@, o)])
    /\ UNCHANGED <<nRequests, nSends>>

FileNext ==
    \/ \E o \in FileOps, kind \in FileKinds \ {"read"} : FileCall(o, kind, "")
    \/ \E o \in FileOps, key \in CachedKeys : FileCall(o, "read", key)
    \/ \E o \in FileOps : FileResume(o)

FileSpec == DispatchInit /\ [][FileNext]_vars

\* C38: isLocked is true in every state in which an update() callback on
\* the object holds the open access handle, whatever other update() calls
\* are attempted meanwhile: a concurrent update() that fails does not clear
\* the lock flag of the one still running.
C38_LockedWhileHeld ==
    \A o \in FileOps :
        (file.ops[o].kind = "update" /\ file.ops[o].pc = "callback") => isLocked(file)

\* An update() callback holds the open handle, a second update() has
\* failed, and isLocked is false.
C38_UnlockedWhileHeld ==
    \E o \in FileOps : \E q \in FileOps \ {o} :
        /\ file.ops[o].kind = "update" /\ file.ops[o].pc = "callback"
        /\ file.lock = o
        /\ file.ops[q].kind = "update" /\ file.ops[q].pc = "failed"
        /\ ~isLocked(file)

\* The version of the entry the latest completed modification left.
Modifications == {"writeBytes", "allocate", "delete", "update"}

CompletedVersion ==
    LET done == {file.ops[o].wrote : o \in {q \in FileOps :
                    file.ops[q].kind \in Modifications /\ file.ops[q].pc = "done"}}
    IN IF done = {} THEN 0 ELSE CHOOSE v \in done : \A w \in done : w <= v

C39_StaleHashAfterWrite ==
    /\ \A o \in FileOps : file.ops[o].kind # "delete"
    /\ \E o \in FileOps :
          /\ file.ops[o].kind = "writeBytes" /\ file.ops[o].pc = "done"
          /\ "sha256" \in DOMAIN file.cache
          /\ file.cache["sha256"].version < file.ops[o].wrote

====
